---------------------------- MODULE Spec2Model ----------------------------
(***************************************************************************)
(* voxelized_geometry_tools: the connected-components labeller, the        *)
(* CollisionMap validity flag, the topology engine (holes and voids of a   *)
(* component surface) and the device point-cloud voxelizer, as state       *)
(* machines translated from the sources.                                   *)
(*                                                                         *)
(* A GridIndex is a triple <<x, y, z>>.  A grid of sizes <<nx, ny, nz>>    *)
(* holds the cells (0..nx-1) \X (0..ny-1) \X (0..nz-1).                    *)
(***************************************************************************)
EXTENDS Integers, Sequences, FiniteSets, TLC

VARIABLES
  sizes,                \* <<nx, ny, nz>> of the grid (GetNumXCells, ...)
  occupancy,            \* cell -> occupancy, in tenths (0 = 0.0, 5 = 0.5, 10 = 1.0)
  component,            \* cell -> component id (the store behind get/mark_component_fn)
  are_connected_fn,     \* the caller's predicate: [kind, pairs]
  number_of_components, \* CollisionMap::number_of_components_
  components_valid,     \* CollisionMap::components_valid_
  pc,                   \* position of the running operation
  caller,               \* who called ComputeConnectedComponents
  sweep_index,          \* (x_index, y_index, z_index) of the sweep loops
  marked_cells,         \* ComputeConnectedComponents::marked_cells
  connected_components, \* ComputeConnectedComponents::connected_components
  working_queue,        \* MarkConnectedComponent::working_queue
  queued_hashtable,     \* keys of MarkConnectedComponent::queued_hashtable holding 1
  returned,             \* the value the last labeller call returned
  previous_run,         \* history: what the generic call before this one left
  topology_mask,        \* component_types_to_use: the occupancy classes asked for
  component_surfaces,   \* component id -> set of its surface cells
  pending_components,   \* ids of component_surfaces not yet processed, ascending
  surface_vertices,     \* keys of ComputeHolesAndVoidsInSurface::surface_vertices
  vertex_connectivity,  \* vertex -> set of exposed-edge bits (0..5)
  m_counts,             \* <<M3, M5, M6>>
  surface_count,        \* ComputeConnectivityOfSurfaceVertices::connected_components
  processed_vertices,   \* ComputeConnectivityOfSurfaceVertices::processed_vertices
  vertex_components,    \* vertices holding a positive entry in vertex_components
  vertex_queue,         \* ComputeConnectivityOfSurfaceVertices::working_queue
  vertex_queued,        \* keys of its queued_hashtable holding 1
  component_processed_vertices,
  iteration_order,      \* "any": every unordered_map order; "ascending": one
  topology,             \* TopologicalInvariants: id -> [num_holes, num_voids]
  exception,            \* the exception that ended the operation, or "none"
  static_environment,   \* VoxelizePointClouds: [initialized, components_valid, total_cells]
  step_size_multiplier, \* a double: [nan, tenths] (tenths 10 = 1.0)
  pointclouds,          \* pointclouds.size()
  interface_available,  \* interface_->IsAvailable()
  voxelizer_pc,         \* position inside VoxelizePointClouds
  backend_calls,        \* the calls made on interface_, in order: <<name, argument>>
  device_allocated,     \* the device buffers currently allocated
  device_tracking_grid_offsets,
  idx,                  \* index of the raycasting loop
  filtered_grid,        \* the grid to return: [components_valid], or <<>>
  voxelizer_exception,  \* the exception VoxelizePointClouds ended with, or "none"
  backend_option,       \* MakePointCloudVoxelizer: the BackendOptions asked for
  backend_available,    \* backend -> its voxelizer can be constructed on this platform
  factory_pc,           \* position inside the voxelizer factory
  factory_path,         \* history: "explicit", "best_available" or "none"
  construction_attempts,\* history: the backends whose constructor was run, in order
  voxelizer,            \* the backend of the voxelizer returned, or "null"
  factory_exception,    \* the exception the factory ended with, or "none"
  cell_fields,          \* one CollisionCell: [occupancy, component], both atomics
  thread_field,         \* thread -> the field it updates
  thread_delta,         \* thread -> the amount it adds
  thread_pc,            \* thread -> "load", "store" or "done"
  thread_loaded,        \* thread -> the value its load returned
  stored_values,        \* history: field -> the values stored into it
  last_op,              \* history: the last public operation performed
  prev_valid,           \* history: components_valid before the last operation
  forced_valid          \* history: components_valid was last set by ForceComponentsToBeValid

vars == <<sizes, occupancy, component, are_connected_fn, number_of_components,
          components_valid, pc, caller, sweep_index, marked_cells,
          connected_components, working_queue, queued_hashtable, returned,
          topology_mask, component_surfaces, pending_components,
          surface_vertices, vertex_connectivity, m_counts, surface_count,
          processed_vertices, vertex_components, vertex_queue, vertex_queued,
          component_processed_vertices, iteration_order, topology, exception,
          static_environment, step_size_multiplier, pointclouds,
          interface_available, voxelizer_pc, backend_calls, device_allocated,
          device_tracking_grid_offsets, idx, filtered_grid,
          voxelizer_exception, backend_option, backend_available, factory_pc,
          factory_path, construction_attempts, voxelizer, factory_exception,
          cell_fields, thread_field, thread_delta, thread_pc, thread_loaded,
          stored_values, previous_run, last_op, prev_valid, forced_valid>>

map_vars == <<number_of_components, components_valid, prev_valid, forced_valid>>
grid_vars == <<sizes, occupancy, component, are_connected_fn>>
surface_vars == <<surface_vertices, vertex_connectivity, m_counts,
                  surface_count, processed_vertices, vertex_components,
                  vertex_queue, vertex_queued, component_processed_vertices>>
topology_vars == <<topology_mask, component_surfaces, pending_components,
                   surface_vars, iteration_order, topology, exception>>
voxelizer_inputs == <<static_environment, step_size_multiplier, pointclouds,
                      interface_available>>
voxelizer_vars == <<voxelizer_inputs, voxelizer_pc, backend_calls,
                    device_allocated, device_tracking_grid_offsets, idx,
                    filtered_grid, voxelizer_exception>>
factory_inputs == <<backend_option, backend_available>>
factory_vars == <<factory_inputs, factory_pc, factory_path,
                  construction_attempts, voxelizer, factory_exception>>
thread_inputs == <<thread_field, thread_delta>>
cell_vars == <<cell_fields, thread_inputs, thread_pc, thread_loaded,
               stored_values>>
label_vars == <<sweep_index, marked_cells, connected_components,
                working_queue, queued_hashtable, returned>>

-----------------------------------------------------------------------------
(* Bounds of the model.                                                    *)

\* The small grids hold at most this many cells.
MaxCells == 4

\* The CollisionMaps of the API model hold at most this many cells.
MapMaxCells == 3

\* The grids relabelled on stale ids hold at most this many cells.
RerunMaxCells == 3

\* At most this many threads update one CollisionCell.
MaxThreads == 2

\* VoxelizePointClouds is given at most this many point clouds.
MaxClouds == 2

\* The small grids of the topology engine hold at most this many cells.
TopologyMaxCells == 3

-----------------------------------------------------------------------------
(* Grid geometry (common_robotics_utilities::voxel_grid).                  *)

GridIndex(x, y, z) == <<x, y, z>>

GetNumXCells == sizes[1]
GetNumYCells == sizes[2]
GetNumZCells == sizes[3]

CellsOf(s) == (0..(s[1] - 1)) \X (0..(s[2] - 1)) \X (0..(s[3] - 1))

Cells == CellsOf(sizes)

IndexInBounds(index) ==
  /\ 0 <= index[1] /\ index[1] < GetNumXCells
  /\ 0 <= index[2] /\ index[2] < GetNumYCells
  /\ 0 <= index[3] /\ index[3] < GetNumZCells

\* Occupancy class of an occupancy value (0.5 is "unknown").
OccupancyClass(occ) ==
  IF occ > 5 THEN "filled" ELSE IF occ < 5 THEN "empty" ELSE "unknown"

-----------------------------------------------------------------------------
(* The three callbacks of the labeller.                                    *)

\* get_component_fn: the stored id, 0 for an index outside the grid.
get_component_fn(comp, index) ==
  IF IndexInBounds(index) THEN comp[index] ELSE 0

\* mark_component_fn: store the id of an in-bounds cell.
mark_component_fn(comp, index, id) ==
  IF IndexInBounds(index) THEN [comp EXCEPT ![index] = id] ELSE comp

\* are_connected_fn: either an explicit relation on index pairs, or the
\* CollisionMap predicate "both in bounds and of the same occupancy class".
AreConnected(index1, index2) ==
  IF are_connected_fn.kind = "relation"
  THEN <<index1, index2>> \in are_connected_fn.pairs
  ELSE /\ IndexInBounds(index1)
       /\ IndexInBounds(index2)
       /\ OccupancyClass(occupancy[index1]) = OccupancyClass(occupancy[index2])

-----------------------------------------------------------------------------
(* MarkConnectedComponent.                                                 *)

NeighborIndicesNoZUp(current_index) ==
  << GridIndex(current_index[1] - 1, current_index[2], current_index[3]),
     GridIndex(current_index[1] + 1, current_index[2], current_index[3]),
     GridIndex(current_index[1], current_index[2] - 1, current_index[3]),
     GridIndex(current_index[1], current_index[2] + 1, current_index[3]),
     GridIndex(current_index[1], current_index[2], current_index[3] - 1),
     GridIndex(current_index[1], current_index[2], current_index[3] - 1) >>

\* The six face neighbours, in the order the code visits them.
NeighborIndices(current_index) ==
  << GridIndex(current_index[1] - 1, current_index[2], current_index[3]),
     GridIndex(current_index[1] + 1, current_index[2], current_index[3]),
     GridIndex(current_index[1], current_index[2] - 1, current_index[3]),
     GridIndex(current_index[1], current_index[2] + 1, current_index[3]),
     GridIndex(current_index[1], current_index[2], current_index[3] - 1),
     GridIndex(current_index[1], current_index[2], current_index[3] + 1) >>

NeighborsToEnqueueAny(comp, current_index, queued) ==
  SelectSeq(NeighborIndices(current_index),
            LAMBDA neighbor_index :
              /\ IndexInBounds(neighbor_index)
              /\ get_component_fn(comp, neighbor_index) = 0
              /\ neighbor_index \notin queued)

NeighborsToEnqueueAgain(comp, current_index, queued) ==
  SelectSeq(NeighborIndices(current_index),
            LAMBDA neighbor_index :
              /\ get_component_fn(comp, neighbor_index) = 0
              /\ AreConnected(current_index, neighbor_index))

\* The neighbours one loop iteration enqueues: the six neighbours are
\* distinct, so the three nested tests select them independently.
NeighborsToEnqueue(comp, current_index, queued) ==
  SelectSeq(NeighborIndices(current_index),
            LAMBDA neighbor_index :
              /\ get_component_fn(comp, neighbor_index) = 0
              /\ AreConnected(current_index, neighbor_index)
              /\ neighbor_index \notin queued)

SeqToSet(s) == {s[i] : i \in 1..Len(s)}

\* What MarkConnectedComponent returns: marked_cells is initialised to 0
\* and never incremented.
MarkConnectedComponentResult == 0

-----------------------------------------------------------------------------
(* ComputeConnectedComponents.                                             *)

total_cells == GetNumXCells * GetNumYCells * GetNumZCells

\* The sweep loops: x outermost, z innermost.
SweepEnd == GridIndex(GetNumXCells, 0, 0)

NextSweepIndexSkipLastZ(index) ==
  IF index[3] + 2 < GetNumZCells THEN GridIndex(index[1], index[2], index[3] + 1)
  ELSE IF index[2] + 1 < GetNumYCells THEN GridIndex(index[1], index[2] + 1, 0)
  ELSE GridIndex(index[1] + 1, 0, 0)

NextSweepIndexYInnermost(index) ==
  IF index[2] + 1 < GetNumYCells THEN GridIndex(index[1], index[2] + 1, index[3])
  ELSE IF index[3] + 1 < GetNumZCells THEN GridIndex(index[1], 0, index[3] + 1)
  ELSE GridIndex(index[1] + 1, 0, 0)

NextSweepIndex(index) ==
  IF index[3] + 1 < GetNumZCells THEN GridIndex(index[1], index[2], index[3] + 1)
  ELSE IF index[2] + 1 < GetNumYCells THEN GridIndex(index[1], index[2] + 1, 0)
  ELSE GridIndex(index[1] + 1, 0, 0)

\* Entry: the generic algorithm called with the caller's callbacks.
ComputeConnectedComponents ==
  /\ pc = "idle"
  /\ are_connected_fn.kind # "none"
  /\ caller' = "generic"
  /\ pc' = "cc_reset"
  /\ last_op' = "ComputeConnectedComponents"
  /\ UNCHANGED <<sizes, occupancy, component, are_connected_fn, map_vars,
                 label_vars>>
  /\ UNCHANGED <<topology_vars, voxelizer_vars, factory_vars, cell_vars, previous_run>>

\* The generic call is over; the caller has the count.
ComputeConnectedComponentsDone ==
  /\ pc = "cc_return"
  /\ caller = "generic"
  /\ pc' = "idle"
  /\ previous_run' =
       [done |-> TRUE, component |-> component, returned |-> returned]
  /\ UNCHANGED <<sizes, occupancy, component, are_connected_fn, map_vars,
                 caller, label_vars, last_op>>
  /\ UNCHANGED <<topology_vars, voxelizer_vars, factory_vars, cell_vars>>

ComponentsNotReset(comp) == comp

\* The reset loops: mark_component_fn(index, 0) for every cell.
ComponentsAfterReset(comp) == [index \in DOMAIN comp |-> 0]

\* "Reset components first": mark_component_fn(index, 0) for every cell.
\* Through a CollisionMap the mark is a mutable access, which invalidates.
ResetComponents ==
  /\ pc = "cc_reset"
  /\ component' = ComponentsAfterReset(component)
  /\ marked_cells' = 0
  /\ connected_components' = 0
  /\ sweep_index' = GridIndex(0, 0, 0)
  /\ components_valid' =
       IF caller = "UpdateConnectedComponents" THEN FALSE ELSE components_valid
  /\ pc' = "cc_sweep"
  /\ UNCHANGED <<sizes, occupancy, are_connected_fn, number_of_components,
                 prev_valid, forced_valid, caller, working_queue,
                 queued_hashtable, returned, last_op>>
  /\ UNCHANGED <<topology_vars, voxelizer_vars, factory_vars, cell_vars, previous_run>>

\* One iteration of the sweep: an unmarked cell starts a new component.
SweepCell ==
  /\ pc = "cc_sweep"
  /\ sweep_index # SweepEnd
  /\ IF get_component_fn(component, sweep_index) = 0
     THEN /\ connected_components' = connected_components + 1
          /\ working_queue' = <<sweep_index>>
          /\ queued_hashtable' = {sweep_index}
          /\ pc' = "mcc_loop"
          /\ UNCHANGED sweep_index
     ELSE /\ sweep_index' = NextSweepIndex(sweep_index)
          /\ UNCHANGED <<connected_components, working_queue,
                         queued_hashtable, pc>>
  /\ UNCHANGED <<sizes, occupancy, component, are_connected_fn, map_vars,
                 caller, marked_cells, returned, last_op>>
  /\ UNCHANGED <<topology_vars, voxelizer_vars, factory_vars, cell_vars, previous_run>>

\* One iteration of MarkConnectedComponent's while loop.
MarkLoop ==
  /\ pc = "mcc_loop"
  /\ Len(working_queue) > 0
  /\ LET current_index == Head(working_queue)
         marked == mark_component_fn(component, current_index,
                                     connected_components)
         enqueue == NeighborsToEnqueue(marked, current_index,
                                       queued_hashtable)
     IN /\ component' = marked
        /\ working_queue' = Tail(working_queue) \o enqueue
        /\ queued_hashtable' = queued_hashtable \cup SeqToSet(enqueue)
  /\ components_valid' =
       IF caller = "UpdateConnectedComponents" THEN FALSE ELSE components_valid
  /\ UNCHANGED <<sizes, occupancy, are_connected_fn, number_of_components,
                 prev_valid, forced_valid, pc, caller, sweep_index,
                 marked_cells, connected_components, returned, last_op>>
  /\ UNCHANGED <<topology_vars, voxelizer_vars, factory_vars, cell_vars, previous_run>>

\* MarkConnectedComponent returns; the sweep adds its count and tests the
\* short-circuit.
MarkReturn ==
  /\ pc = "mcc_loop"
  /\ Len(working_queue) = 0
  /\ marked_cells' = marked_cells + MarkConnectedComponentResult
  /\ IF marked_cells' = total_cells
     THEN /\ returned' = connected_components
          /\ pc' = "cc_return"
          /\ UNCHANGED sweep_index
     ELSE /\ sweep_index' = NextSweepIndex(sweep_index)
          /\ pc' = "cc_sweep"
          /\ UNCHANGED returned
  /\ queued_hashtable' = {}
  /\ UNCHANGED <<sizes, occupancy, component, are_connected_fn, map_vars,
                 caller, connected_components, working_queue, last_op>>
  /\ UNCHANGED <<topology_vars, voxelizer_vars, factory_vars, cell_vars, previous_run>>

\* The sweep loops end: return connected_components.
SweepReturn ==
  /\ pc = "cc_sweep"
  /\ sweep_index = SweepEnd
  /\ returned' = connected_components
  /\ pc' = "cc_return"
  /\ UNCHANGED <<sizes, occupancy, component, are_connected_fn, map_vars,
                 caller, sweep_index, marked_cells, connected_components,
                 working_queue, queued_hashtable, last_op>>
  /\ UNCHANGED <<topology_vars, voxelizer_vars, factory_vars, cell_vars, previous_run>>

\* Between two calls the caller's store may hold any ids: the caller
\* overwrites the id of a cell.
StoreStaleComponent ==
  /\ pc = "idle"
  /\ caller = "generic"
  /\ \E index \in Cells, stale \in {0, total_cells + 1} :
       /\ component[index] # stale
       /\ component' = mark_component_fn(component, index, stale)
  /\ last_op' = "StoreStaleComponent"
  /\ UNCHANGED <<sizes, occupancy, are_connected_fn, map_vars, pc, caller,
                 label_vars, previous_run>>
  /\ UNCHANGED <<topology_vars, voxelizer_vars, factory_vars, cell_vars>>

Labeller == ResetComponents \/ SweepCell \/ MarkLoop \/ MarkReturn \/ SweepReturn

-----------------------------------------------------------------------------
(* CollisionMap: the validity flag and the operations that touch it.       *)

\* The occupancy values a write may store: 0.0, 0.5 and 1.0.
OccupancyValues == {0, 5, 10}

\* OnMutableAccess / OnMutableRawAccess: invalidate the components.
OnMutableAccess == FALSE

GetNumConnectedComponentsAlways ==
  [has_value |-> TRUE, value |-> number_of_components]

\* GetNumConnectedComponents: the count if the components are valid, else
\* an OwningMaybe holding nothing.
GetNumConnectedComponents ==
  IF components_valid
  THEN [has_value |-> TRUE, value |-> number_of_components]
  ELSE [has_value |-> FALSE, value |-> 0]

\* A write through the per-index mutable access: the cell's occupancy or
\* its component id is stored, and the hook runs.
MutableAccess ==
  /\ pc = "idle"
  /\ \E index \in Cells :
       \/ \E occ \in OccupancyValues :
            /\ occupancy' = [occupancy EXCEPT ![index] = occ]
            /\ UNCHANGED component
       \/ \E id \in 0..1 :
            /\ component' = [component EXCEPT ![index] = id]
            /\ UNCHANGED occupancy
  /\ prev_valid' = components_valid
  /\ components_valid' = OnMutableAccess
  /\ forced_valid' = FALSE
  /\ last_op' = "MutableAccess"
  /\ UNCHANGED <<sizes, are_connected_fn, number_of_components, pc, caller,
                 label_vars>>
  /\ UNCHANGED <<topology_vars, voxelizer_vars, factory_vars, cell_vars, previous_run>>

\* GetMutableRawData: the hook runs; the caller may then overwrite the
\* whole cell array (here: leave it, or fill it with one cell value).
MutableRawAccess ==
  /\ pc = "idle"
  /\ \/ UNCHANGED <<occupancy, component>>
     \/ \E occ \in OccupancyValues :
          /\ occupancy' = [index \in Cells |-> occ]
          /\ component' = [index \in Cells |-> 0]
  /\ prev_valid' = components_valid
  /\ components_valid' = OnMutableAccess
  /\ forced_valid' = FALSE
  /\ last_op' = "MutableRawAccess"
  /\ UNCHANGED <<sizes, are_connected_fn, number_of_components, pc, caller,
                 label_vars>>
  /\ UNCHANGED <<topology_vars, voxelizer_vars, factory_vars, cell_vars, previous_run>>

ForceComponentsToBeValid ==
  /\ pc = "idle"
  /\ prev_valid' = components_valid
  /\ components_valid' = TRUE
  /\ forced_valid' = TRUE
  /\ last_op' = "ForceComponentsToBeValid"
  /\ UNCHANGED <<sizes, occupancy, component, are_connected_fn,
                 number_of_components, pc, caller, label_vars>>
  /\ UNCHANGED <<topology_vars, voxelizer_vars, factory_vars, cell_vars, previous_run>>

ForceComponentsToBeInvalid ==
  /\ pc = "idle"
  /\ prev_valid' = components_valid
  /\ components_valid' = FALSE
  /\ forced_valid' = FALSE
  /\ last_op' = "ForceComponentsToBeInvalid"
  /\ UNCHANGED <<sizes, occupancy, component, are_connected_fn,
                 number_of_components, pc, caller, label_vars>>
  /\ UNCHANGED <<topology_vars, voxelizer_vars, factory_vars, cell_vars, previous_run>>

\* The implicit copy constructor copies every member; the program goes on
\* with the copy.
CopyConstruct ==
  /\ pc = "idle"
  /\ prev_valid' = components_valid
  /\ last_op' = "CopyConstruct"
  /\ UNCHANGED <<sizes, occupancy, component, are_connected_fn,
                 number_of_components, components_valid, forced_valid, pc,
                 caller, label_vars>>
  /\ UNCHANGED <<topology_vars, voxelizer_vars, factory_vars, cell_vars, previous_run>>

\* UpdateConnectedComponents: run the labeller with the occupancy-class
\* predicate and the cells' component fields as the store ...
UpdateConnectedComponents ==
  /\ pc = "idle"
  /\ prev_valid' = components_valid
  /\ are_connected_fn' = [kind |-> "occupancy", pairs |-> {}]
  /\ caller' = "UpdateConnectedComponents"
  /\ pc' = "cc_reset"
  /\ last_op' = "UpdateConnectedComponents"
  /\ UNCHANGED <<sizes, occupancy, component, number_of_components,
                 components_valid, forced_valid, label_vars>>
  /\ UNCHANGED <<topology_vars, voxelizer_vars, factory_vars, cell_vars, previous_run>>

\* ... then store the count and declare the components valid.
UpdateConnectedComponentsReturn ==
  /\ pc = "cc_return"
  /\ caller = "UpdateConnectedComponents"
  /\ number_of_components' = returned
  /\ components_valid' = TRUE
  /\ forced_valid' = FALSE
  /\ pc' = "idle"
  /\ UNCHANGED <<sizes, occupancy, component, are_connected_fn, prev_valid,
                 caller, label_vars, last_op>>
  /\ UNCHANGED <<topology_vars, voxelizer_vars, factory_vars, cell_vars, previous_run>>

CollisionMapOps ==
  \/ MutableAccess
  \/ MutableRawAccess
  \/ ForceComponentsToBeValid
  \/ ForceComponentsToBeInvalid
  \/ CopyConstruct
  \/ UpdateConnectedComponents
  \/ UpdateConnectedComponentsReturn

-----------------------------------------------------------------------------
(* Surface extraction (ExtractComponentSurfaces).                          *)

\* FILLED_COMPONENTS and EMPTY_COMPONENTS, as the occupancy classes kept.
ComponentTypes == {{"filled"}, {"empty"}}

\* IsConnectedComponentSurfaceIndex: some face neighbour has another id.
IsConnectedComponentSurfaceIndex(index) ==
  \E i \in 1..6 :
    get_component_fn(component, NeighborIndices(index)[i]) # component[index]

\* The predicate CollisionMap hands to the surface extraction.
is_surface_index_fn(mask, index) ==
  /\ OccupancyClass(occupancy[index]) \in mask
  /\ IsConnectedComponentSurfaceIndex(index)

ExtractComponentSurfaces(mask) ==
  LET surface_cells == {index \in Cells : is_surface_index_fn(mask, index)}
      ids == {component[index] : index \in surface_cells}
  IN [id \in ids |-> {index \in surface_cells : component[index] = id}]

\* The keys of a std::map, in the order its iterator yields them.
RECURSIVE AscendingSeq(_)
AscendingSeq(S) ==
  IF S = {} THEN <<>>
  ELSE LET least == CHOOSE x \in S : \A y \in S : x <= y
       IN <<least>> \o AscendingSeq(S \ {least})

-----------------------------------------------------------------------------
(* ComputeHolesAndVoidsInSurface.                                          *)

\* The index queried for xyzp1_component.
ZPlusNeighborQueried(current_index) ==
  GridIndex(current_index[1], current_index[2], current_index[3] - 1)

\* The corners of one surface voxel that are inserted as surface vertices:
\* corner (dx, dy, dz) is inserted when one of the three neighbours queried
\* for its sides is not of the component.
VoxelSurfaceVertices(comp_id, current_index) ==
  LET xyzm1_component == get_component_fn(component,
        GridIndex(current_index[1], current_index[2], current_index[3] - 1))
      xyzp1_component == get_component_fn(component,
        ZPlusNeighborQueried(current_index))
      xym1z_component == get_component_fn(component,
        GridIndex(current_index[1], current_index[2] - 1, current_index[3]))
      xyp1z_component == get_component_fn(component,
        GridIndex(current_index[1], current_index[2] + 1, current_index[3]))
      xm1yz_component == get_component_fn(component,
        GridIndex(current_index[1] - 1, current_index[2], current_index[3]))
      xp1yz_component == get_component_fn(component,
        GridIndex(current_index[1] + 1, current_index[2], current_index[3]))
      x_side(d) == IF d[1] = 0 THEN xm1yz_component ELSE xp1yz_component
      y_side(d) == IF d[2] = 0 THEN xym1z_component ELSE xyp1z_component
      z_side(d) == IF d[3] = 0 THEN xyzm1_component ELSE xyzp1_component
  IN {GridIndex(current_index[1] + d[1], current_index[2] + d[2],
                current_index[3] + d[3]) :
        d \in {e \in {0, 1} \X {0, 1} \X {0, 1} :
                 \/ comp_id # z_side(e)
                 \/ comp_id # y_side(e)
                 \/ comp_id # x_side(e)}}

\* The first loop: the surface vertices of all surface voxels.
ExtractSurfaceVertices(comp_id, surface) ==
  UNION {VoxelSurfaceVertices(comp_id, index) : index \in surface}

\* The four voxels around each of the six edges of a vertex, as offsets
\* from the vertex (-1 is the "m1" voxel, 0 the "p1" voxel).
EdgeVoxels(bit) ==
  {d \in {-1, 0} \X {-1, 0} \X {-1, 0} :
     CASE bit = 0 -> d[3] = -1
       [] bit = 1 -> d[3] = 0
       [] bit = 2 -> d[2] = -1
       [] bit = 3 -> d[2] = 0
       [] bit = 4 -> d[1] = -1
       [] bit = 5 -> d[1] = 0}

VoxelInComponent(comp_id, key, d) ==
  get_component_fn(component,
                   GridIndex(key[1] + d[1], key[2] + d[2], key[3] + d[3]))
    = comp_id

EdgeExposedIfAnyOutside(comp_id, key, bit) ==
  \E d \in EdgeVoxels(bit) : ~VoxelInComponent(comp_id, key, d)

\* An edge is counted when some of its four voxels is outside the
\* component and not all of them are.
EdgeExposed(comp_id, key, bit) ==
  /\ \E d \in EdgeVoxels(bit) : ~VoxelInComponent(comp_id, key, d)
  /\ ~(\A d \in EdgeVoxels(bit) : ~VoxelInComponent(comp_id, key, d))

\* vertex_connectivity[key]: the bits set for the vertex.
VertexConnectivity(comp_id, key) ==
  {bit \in 0..5 : EdgeExposed(comp_id, key, bit)}

\* The vertices with at least so many counted edges.
CountVerticesAtLeast(connectivity, edge_count) ==
  Cardinality({key \in DOMAIN connectivity :
                 Cardinality(connectivity[key]) >= edge_count})

\* M3, M5 and M6: the vertices with 3, 5 and 6 counted edges.
CountVertices(connectivity, edge_count) ==
  Cardinality({key \in DOMAIN connectivity :
                 Cardinality(connectivity[key]) = edge_count})

\* Division rounding towards minus infinity.
FlooringDiv(a, b) == a \div b

\* C++ integer division truncates towards zero.
TruncatingDiv(a, b) ==
  IF a >= 0 THEN a \div b ELSE -((-a) \div b)

RawNumberOfHolesNoM3(counts) ==
  1 + TruncatingDiv(counts[2] + (2 * counts[3]), 8)

\* raw_number_of_holes = 1 + ((M5 + (2 * M6) - M3) / 8)
RawNumberOfHoles(counts) ==
  1 + TruncatingDiv(counts[2] + (2 * counts[3]) - counts[1], 8)

-----------------------------------------------------------------------------
(* ComputeConnectivityOfSurfaceVertices.                                   *)

\* The vertex an edge bit leads to.
ConnectedVertex(current_vertex, bit) ==
  CASE bit = 0 -> GridIndex(current_vertex[1], current_vertex[2], current_vertex[3] - 1)
    [] bit = 1 -> GridIndex(current_vertex[1], current_vertex[2], current_vertex[3] + 1)
    [] bit = 2 -> GridIndex(current_vertex[1], current_vertex[2] - 1, current_vertex[3])
    [] bit = 3 -> GridIndex(current_vertex[1], current_vertex[2] + 1, current_vertex[3])
    [] bit = 4 -> GridIndex(current_vertex[1] - 1, current_vertex[2], current_vertex[3])
    [] bit = 5 -> GridIndex(current_vertex[1] + 1, current_vertex[2], current_vertex[3])

\* The vertices one loop iteration enqueues, in the order of the six tests.
VerticesToEnqueue(connectivity, current_vertex, queued) ==
  LET set_bits == SelectSeq(<<0, 1, 2, 3, 4, 5>>,
                            LAMBDA bit :
                              /\ bit \in connectivity
                              /\ ConnectedVertex(current_vertex, bit) \notin queued)
  IN [i \in 1..Len(set_bits) |-> ConnectedVertex(current_vertex, set_bits[i])]

VertexBefore(a, b) ==
  \/ a[1] < b[1]
  \/ a[1] = b[1] /\ a[2] < b[2]
  \/ a[1] = b[1] /\ a[2] = b[2] /\ a[3] <= b[3]

\* The vertices the outer loop may reach next among the unmarked ones: the
\* iteration order of an unordered_map is unspecified.
NextKeys(unmarked) ==
  IF iteration_order = "any" THEN unmarked
  ELSE {key \in unmarked : \A other \in unmarked : VertexBefore(key, other)}

-----------------------------------------------------------------------------
(* ComputeComponentTopology.                                               *)

\* CollisionMap::ComputeComponentTopology: refuse invalid components, else
\* extract the surfaces of the components of the asked types.
ComputeComponentTopology ==
  /\ pc = "idle"
  /\ \E mask \in ComponentTypes :
       /\ topology_mask' = mask
       /\ IF ~components_valid
          THEN /\ exception' = "ComponentsInvalid"
               /\ component_surfaces' = <<>>
               /\ pending_components' = <<>>
               /\ pc' = "threw"
          ELSE /\ exception' = "none"
               /\ component_surfaces' = ExtractComponentSurfaces(mask)
               /\ pending_components' =
                    AscendingSeq(DOMAIN ExtractComponentSurfaces(mask))
               /\ pc' = "topology_loop"
  /\ topology' = <<>>
  /\ last_op' = "ComputeComponentTopology"
  /\ UNCHANGED <<previous_run, factory_vars, cell_vars, voxelizer_vars, grid_vars, map_vars, caller, label_vars, surface_vars,
                 iteration_order>>

\* The loop over the component surfaces; for the next one, the first loop
\* of ComputeHolesAndVoidsInSurface collects its surface vertices.
TopologyLoop ==
  /\ pc = "topology_loop"
  /\ IF pending_components = <<>>
     THEN /\ pc' = "topology_return"
          /\ UNCHANGED surface_vertices
     ELSE /\ surface_vertices' =
               ExtractSurfaceVertices(Head(pending_components),
                 component_surfaces[Head(pending_components)])
          /\ pc' = "count_edges"
  /\ UNCHANGED <<previous_run, factory_vars, cell_vars, voxelizer_vars, grid_vars, map_vars, caller, label_vars, topology_mask,
                 component_surfaces, pending_components, vertex_connectivity,
                 m_counts, surface_count, processed_vertices,
                 vertex_components, vertex_queue, vertex_queued,
                 component_processed_vertices, iteration_order, topology,
                 exception, last_op>>

\* The second loop: the exposed edges of every surface vertex and the
\* counts M3, M5, M6; then ComputeConnectivityOfSurfaceVertices starts.
CountEdges ==
  /\ pc = "count_edges"
  /\ LET connectivity ==
           [key \in surface_vertices |->
              VertexConnectivity(Head(pending_components), key)]
     IN /\ vertex_connectivity' = connectivity
        /\ m_counts' = <<CountVertices(connectivity, 3),
                         CountVertices(connectivity, 5),
                         CountVertices(connectivity, 6)>>
  /\ surface_count' = 0
  /\ processed_vertices' = 0
  /\ vertex_components' = {}
  /\ vertex_queue' = <<>>
  /\ vertex_queued' = {}
  /\ component_processed_vertices' = 0
  /\ pc' = "surface_iterate"
  /\ UNCHANGED <<previous_run, factory_vars, cell_vars, voxelizer_vars, grid_vars, map_vars, caller, label_vars, topology_mask,
                 component_surfaces, pending_components, surface_vertices,
                 iteration_order, topology, exception, last_op>>

\* The outer loop: iterations over marked vertices change nothing; the
\* next unmarked vertex starts a new connected component.
SurfaceIterate ==
  /\ pc = "surface_iterate"
  /\ LET unmarked == (DOMAIN vertex_connectivity) \ vertex_components
     IN IF unmarked = {}
        THEN /\ pc' = "holes_and_voids"
             /\ UNCHANGED <<surface_count, vertex_queue, vertex_queued,
                            component_processed_vertices>>
        ELSE \E key \in NextKeys(unmarked) :
               /\ surface_count' = surface_count + 1
               /\ vertex_queue' = <<key>>
               /\ vertex_queued' = {key}
               /\ component_processed_vertices' = 0
               /\ pc' = "surface_loop"
  /\ UNCHANGED <<previous_run, factory_vars, cell_vars, voxelizer_vars, grid_vars, map_vars, caller, label_vars, topology_mask,
                 component_surfaces, pending_components, surface_vertices,
                 vertex_connectivity, m_counts, processed_vertices,
                 vertex_components, iteration_order, topology, exception,
                 last_op>>

\* One iteration of the inner while loop; at() throws std::out_of_range for
\* a vertex that is not in the connectivity map.
SurfaceLoop ==
  /\ pc = "surface_loop"
  /\ Len(vertex_queue) > 0
  /\ LET current_vertex == Head(vertex_queue)
     IN /\ component_processed_vertices' = component_processed_vertices + 1
        /\ vertex_components' = vertex_components \cup {current_vertex}
        /\ IF current_vertex \notin DOMAIN vertex_connectivity
           THEN /\ exception' = "out_of_range"
                /\ pc' = "threw"
                /\ vertex_queue' = Tail(vertex_queue)
                /\ UNCHANGED vertex_queued
           ELSE LET enqueue == VerticesToEnqueue(
                                 vertex_connectivity[current_vertex],
                                 current_vertex, vertex_queued)
                IN /\ vertex_queue' = Tail(vertex_queue) \o enqueue
                   /\ vertex_queued' = vertex_queued \cup SeqToSet(enqueue)
                   /\ UNCHANGED <<exception, pc>>
  /\ UNCHANGED <<previous_run, factory_vars, cell_vars, voxelizer_vars, grid_vars, map_vars, caller, label_vars, topology_mask,
                 component_surfaces, pending_components, surface_vertices,
                 vertex_connectivity, m_counts, surface_count,
                 processed_vertices, iteration_order, topology, last_op>>

\* The queue is empty: add the component's count and test the break.
SurfaceLoopEnd ==
  /\ pc = "surface_loop"
  /\ Len(vertex_queue) = 0
  /\ processed_vertices' = processed_vertices + component_processed_vertices
  /\ pc' = IF processed_vertices' = Cardinality(DOMAIN vertex_connectivity)
           THEN "holes_and_voids" ELSE "surface_iterate"
  /\ UNCHANGED <<previous_run, factory_vars, cell_vars, voxelizer_vars, grid_vars, map_vars, caller, label_vars, topology_mask,
                 component_surfaces, pending_components, surface_vertices,
                 vertex_connectivity, m_counts, surface_count,
                 vertex_components, vertex_queue, vertex_queued,
                 component_processed_vertices, iteration_order, topology,
                 exception, last_op>>

\* The counts of the surface; the NumberOfHolesAndVoids constructor throws
\* std::invalid_argument for a negative one.
HolesAndVoids ==
  /\ pc = "holes_and_voids"
  /\ LET number_of_surfaces == surface_count
         number_of_voids == number_of_surfaces - 1
         raw_number_of_holes == RawNumberOfHoles(m_counts)
         number_of_holes == raw_number_of_holes + number_of_voids
     IN IF number_of_holes < 0 \/ number_of_voids < 0
        THEN /\ exception' = "invalid_argument"
             /\ pc' = "threw"
             /\ UNCHANGED <<topology, pending_components>>
        ELSE /\ topology' =
                  [id \in (DOMAIN topology) \cup {Head(pending_components)} |->
                     IF id = Head(pending_components)
                     THEN [num_holes |-> number_of_holes,
                           num_voids |-> number_of_voids]
                     ELSE topology[id]]
             /\ pending_components' = Tail(pending_components)
             /\ pc' = "topology_loop"
             /\ UNCHANGED exception
  /\ UNCHANGED <<previous_run, factory_vars, cell_vars, voxelizer_vars, grid_vars, map_vars, caller, label_vars, topology_mask,
                 component_surfaces, surface_vars, iteration_order, last_op>>

TopologyEngine ==
  \/ ComputeComponentTopology
  \/ TopologyLoop
  \/ CountEdges
  \/ SurfaceIterate
  \/ SurfaceLoop
  \/ SurfaceLoopEnd
  \/ HolesAndVoids

-----------------------------------------------------------------------------
(* OpenCLPointCloudVoxelizer::VoxelizePointClouds.  The helper interface   *)
(* is the device: each of its calls may succeed, report failure where its  *)
(* signature allows it, or raise.                                          *)

collision_map_vars == <<grid_vars, map_vars, pc, caller, label_vars,
                        topology_vars, last_op, previous_run>>
other_vars == <<collision_map_vars, factory_vars, cell_vars>>

BackendCallPrepended(name, argument) ==
  <<<<name, argument>>>> \o backend_calls

BackendCall(name, argument) == Append(backend_calls, <<name, argument>>)

\* The offsets a successful PrepareTrackingGrids returns: one per cloud.
TrackingGridOffsets(total, num_grids) ==
  [i \in 1..num_grids |-> (i - 1) * total]

\* A double, in tenths, and the NaN of the type.
Double(tenths) == [nan |-> FALSE, tenths |-> tenths]
NaN == [nan |-> TRUE, tenths |-> 0]

\* The comparisons of doubles: every comparison with a NaN is false.
DoubleGreater(a, b) == ~a.nan /\ ~b.nan /\ a.tenths > b.tenths
DoubleLessEqual(a, b) == ~a.nan /\ ~b.nan /\ a.tenths <= b.tenths

\* step_size_multiplier > 1.0 || step_size_multiplier <= 0.0
StepSizeRejected(multiplier) ==
  \/ DoubleGreater(multiplier, Double(10))
  \/ DoubleLessEqual(multiplier, Double(0))

\* Entry and validation of the arguments, then the availability test.
VoxelizePointClouds ==
  /\ voxelizer_pc = "idle"
  /\ IF ~static_environment.initialized
     THEN /\ voxelizer_exception' = "invalid_argument: !IsInitialized"
          /\ voxelizer_pc' = "threw"
     ELSE IF StepSizeRejected(step_size_multiplier)
     THEN /\ voxelizer_exception' = "invalid_argument: step_size_multiplier"
          /\ voxelizer_pc' = "threw"
     ELSE IF ~interface_available
     THEN /\ voxelizer_exception' = "runtime_error: not available"
          /\ voxelizer_pc' = "threw"
     ELSE /\ voxelizer_pc' = "prepare_tracking_grids"
          /\ UNCHANGED voxelizer_exception
  /\ UNCHANGED <<voxelizer_inputs, backend_calls, device_allocated,
                 device_tracking_grid_offsets, idx, filtered_grid, other_vars>>

\* PrepareTrackingGrids and the test of the number of offsets.
PrepareTrackingGrids ==
  /\ voxelizer_pc = "prepare_tracking_grids"
  /\ backend_calls' = BackendCall("PrepareTrackingGrids", pointclouds)
  /\ \E outcome \in {"ok", "failed", "raised"} :
       IF outcome = "raised"
       THEN /\ voxelizer_exception' = "backend exception"
            /\ voxelizer_pc' = "threw"
            /\ UNCHANGED <<device_allocated, device_tracking_grid_offsets>>
       ELSE /\ device_tracking_grid_offsets' =
                 IF outcome = "ok"
                 THEN TrackingGridOffsets(static_environment.total_cells,
                                          pointclouds)
                 ELSE <<>>
            /\ device_allocated' =
                 IF outcome = "ok" THEN {"tracking_grids"} ELSE {}
            /\ IF Len(device_tracking_grid_offsets') # pointclouds
               THEN /\ voxelizer_exception' =
                         "runtime_error: Failed to allocate device tracking grid"
                    /\ voxelizer_pc' = "threw"
               ELSE /\ voxelizer_pc' = "raycast"
                    /\ UNCHANGED voxelizer_exception
  /\ idx' = 0
  /\ UNCHANGED <<voxelizer_inputs, filtered_grid, other_vars>>

\* One iteration of the raycasting loop, or its exit.
RaycastPoints ==
  /\ voxelizer_pc = "raycast"
  /\ IF idx < pointclouds
     THEN /\ backend_calls' =
               BackendCall("RaycastPoints", device_tracking_grid_offsets[idx + 1])
          /\ \E outcome \in {"ok", "raised"} :
               IF outcome = "raised"
               THEN /\ voxelizer_exception' = "backend exception"
                    /\ voxelizer_pc' = "threw"
                    /\ UNCHANGED idx
               ELSE /\ idx' = idx + 1
                    /\ UNCHANGED <<voxelizer_exception, voxelizer_pc>>
     ELSE /\ voxelizer_pc' = "prepare_filter_grid"
          /\ UNCHANGED <<backend_calls, idx, voxelizer_exception>>
  /\ UNCHANGED <<voxelizer_inputs, device_allocated,
                 device_tracking_grid_offsets, filtered_grid, other_vars>>

\* PrepareFilterGrid and the test of its result.
PrepareFilterGrid ==
  /\ voxelizer_pc = "prepare_filter_grid"
  /\ backend_calls' =
       BackendCall("PrepareFilterGrid", static_environment.total_cells)
  /\ \E outcome \in {"ok", "failed", "raised"} :
       IF outcome = "raised"
       THEN /\ voxelizer_exception' = "backend exception"
            /\ voxelizer_pc' = "threw"
            /\ UNCHANGED device_allocated
       ELSE IF outcome = "failed"
       THEN /\ voxelizer_exception' =
                 "runtime_error: Failed to allocate device filter grid"
            /\ voxelizer_pc' = "threw"
            /\ UNCHANGED device_allocated
       ELSE /\ device_allocated' = device_allocated \cup {"filter_grid"}
            /\ voxelizer_pc' = "filter_tracking_grids"
            /\ UNCHANGED voxelizer_exception
  /\ UNCHANGED <<voxelizer_inputs, device_tracking_grid_offsets, idx,
                 filtered_grid, other_vars>>

FilterTrackingGrids ==
  /\ voxelizer_pc = "filter_tracking_grids"
  /\ backend_calls' = BackendCall("FilterTrackingGrids", pointclouds)
  /\ \E outcome \in {"ok", "raised"} :
       IF outcome = "raised"
       THEN /\ voxelizer_exception' = "backend exception"
            /\ voxelizer_pc' = "threw"
       ELSE /\ voxelizer_pc' = "retrieve_filtered_grid"
            /\ UNCHANGED voxelizer_exception
  /\ UNCHANGED <<voxelizer_inputs, device_allocated,
                 device_tracking_grid_offsets, idx, filtered_grid, other_vars>>

\* CollisionMap filtered_grid = static_environment: the copy holds the
\* flag of the original.
CopyOfEnvironment(environment) ==
  [components_valid |-> environment.components_valid]

FilteredGridUntouched(environment) == CopyOfEnvironment(environment)

\* filtered_grid is a copy of static_environment; taking its mutable raw
\* data is a mutable raw access of the copy.
FilteredGridRetrieved(environment) ==
  [CopyOfEnvironment(environment) EXCEPT !.components_valid = OnMutableAccess]

RetrieveFilteredGrid ==
  /\ voxelizer_pc = "retrieve_filtered_grid"
  /\ filtered_grid' = FilteredGridRetrieved(static_environment)
  /\ backend_calls' =
       BackendCall("RetrieveFilteredGrid", static_environment.total_cells)
  /\ \E outcome \in {"ok", "raised"} :
       IF outcome = "raised"
       THEN /\ voxelizer_exception' = "backend exception"
            /\ voxelizer_pc' = "threw"
       ELSE /\ voxelizer_pc' = "cleanup_allocated_memory"
            /\ UNCHANGED voxelizer_exception
  /\ UNCHANGED <<voxelizer_inputs, device_allocated,
                 device_tracking_grid_offsets, idx, other_vars>>

\* CleanupAllocatedMemory, then the return of filtered_grid.
CleanupAllocatedMemory ==
  /\ voxelizer_pc = "cleanup_allocated_memory"
  /\ backend_calls' = BackendCall("CleanupAllocatedMemory", 0)
  /\ \E outcome \in {"ok", "raised"} :
       IF outcome = "raised"
       THEN /\ voxelizer_exception' = "backend exception"
            /\ voxelizer_pc' = "threw"
            /\ UNCHANGED device_allocated
       ELSE /\ device_allocated' = {}
            /\ voxelizer_pc' = "returned"
            /\ UNCHANGED voxelizer_exception
  /\ UNCHANGED <<voxelizer_inputs, device_tracking_grid_offsets, idx,
                 filtered_grid, other_vars>>

-----------------------------------------------------------------------------
(* MakePointCloudVoxelizer and MakeBestAvailablePointCloudVoxelizer.       *)

Backends == {"CUDA", "OPENCL", "CPU"}

\* The values a BackendOptions argument can hold; "INVALID" stands for a
\* value outside the enumeration.
BackendOptions == {"BEST_AVAILABLE", "CPU", "OPENCL", "CUDA", "INVALID"}

ConstructsAlways(backend) == TRUE

\* The constructor of a voxelizer returns when its backend is available
\* and throws std::runtime_error otherwise.
Constructs(backend) == backend_available[backend]

FallbackAfterSkipsOne(backend) == "try_cpu"

\* Where control goes when the catch block of a backend has run.
FallbackAfter(backend) ==
  IF backend = "CUDA" THEN "try_opencl" ELSE "try_cpu"

MakePointCloudVoxelizerFallingBack ==
  /\ factory_pc = "idle"
  /\ IF backend_option = "BEST_AVAILABLE"
     THEN /\ factory_path' = "best_available"
          /\ factory_pc' = "try_cuda"
          /\ UNCHANGED <<construction_attempts, voxelizer, factory_exception>>
     ELSE IF backend_option \in Backends
     THEN /\ factory_path' = "explicit"
          /\ construction_attempts' =
               Append(construction_attempts, backend_option)
          /\ IF Constructs(backend_option)
             THEN /\ voxelizer' = backend_option
                  /\ factory_pc' = "returned"
                  /\ UNCHANGED factory_exception
             ELSE /\ factory_pc' = FallbackAfter(backend_option)
                  /\ UNCHANGED <<voxelizer, factory_exception>>
     ELSE /\ factory_path' = "explicit"
          /\ factory_exception' = "invalid_argument: Invalid BackendOptions"
          /\ factory_pc' = "threw"
          /\ UNCHANGED <<construction_attempts, voxelizer>>
  /\ UNCHANGED <<factory_inputs, collision_map_vars, voxelizer_vars,
                 cell_vars>>

\* MakePointCloudVoxelizer(backend_option, device_options).
MakePointCloudVoxelizer ==
  /\ factory_pc = "idle"
  /\ IF backend_option = "BEST_AVAILABLE"
     THEN /\ factory_path' = "best_available"
          /\ factory_pc' = "try_cuda"
          /\ UNCHANGED <<construction_attempts, voxelizer, factory_exception>>
     ELSE IF backend_option \in Backends
     THEN /\ factory_path' = "explicit"
          /\ construction_attempts' =
               Append(construction_attempts, backend_option)
          /\ IF Constructs(backend_option)
             THEN /\ voxelizer' = backend_option
                  /\ factory_pc' = "returned"
                  /\ UNCHANGED factory_exception
             ELSE /\ factory_exception' = "runtime_error: not available"
                  /\ factory_pc' = "threw"
                  /\ UNCHANGED voxelizer
     ELSE /\ factory_path' = "explicit"
          /\ factory_exception' = "invalid_argument: Invalid BackendOptions"
          /\ factory_pc' = "threw"
          /\ UNCHANGED <<construction_attempts, voxelizer>>
  /\ UNCHANGED <<factory_inputs, collision_map_vars, voxelizer_vars,
                 cell_vars>>

\* MakeBestAvailablePointCloudVoxelizer called directly.
MakeBestAvailablePointCloudVoxelizer ==
  /\ factory_pc = "idle"
  /\ factory_path' = "best_available"
  /\ factory_pc' = "try_cuda"
  /\ UNCHANGED <<factory_inputs, construction_attempts, voxelizer,
                 factory_exception, collision_map_vars, voxelizer_vars,
                 cell_vars>>

\* The first try block and its catch.
TryCuda ==
  /\ factory_pc = "try_cuda"
  /\ construction_attempts' = Append(construction_attempts, "CUDA")
  /\ IF Constructs("CUDA")
     THEN /\ voxelizer' = "CUDA"
          /\ factory_pc' = "returned"
     ELSE /\ factory_pc' = FallbackAfter("CUDA")
          /\ UNCHANGED voxelizer
  /\ UNCHANGED <<factory_inputs, factory_path, factory_exception,
                 collision_map_vars, voxelizer_vars, cell_vars>>

\* The second try block and its catch.
TryOpenCL ==
  /\ factory_pc = "try_opencl"
  /\ construction_attempts' = Append(construction_attempts, "OPENCL")
  /\ IF Constructs("OPENCL")
     THEN /\ voxelizer' = "OPENCL"
          /\ factory_pc' = "returned"
     ELSE /\ factory_pc' = FallbackAfter("OPENCL")
          /\ UNCHANGED voxelizer
  /\ UNCHANGED <<factory_inputs, factory_path, factory_exception,
                 collision_map_vars, voxelizer_vars, cell_vars>>

\* The third try block; its catch throws the final error.
TryCpu ==
  /\ factory_pc = "try_cpu"
  /\ construction_attempts' = Append(construction_attempts, "CPU")
  /\ IF Constructs("CPU")
     THEN /\ voxelizer' = "CPU"
          /\ factory_pc' = "returned"
          /\ UNCHANGED factory_exception
     ELSE /\ factory_exception' =
               "runtime_error: No PointCloud Voxelizers available"
          /\ factory_pc' = "threw"
          /\ UNCHANGED voxelizer
  /\ UNCHANGED <<factory_inputs, factory_path, collision_map_vars,
                 voxelizer_vars, cell_vars>>

-----------------------------------------------------------------------------
(* CollisionCell: two atomics, read with load() and written with store().  *)
(* A thread updates a field by reading it and writing the sum back.        *)

Threads == 1..MaxThreads

CellFieldNames == {"occupancy", "component"}

StoreAdds(old, value) == old + value

\* store(value): the atomic holds the value stored.
Store(old, value) == value

non_cell_vars == <<collision_map_vars, voxelizer_vars, factory_vars>>

\* The thread reads the field it updates.
LoadField(t, field) ==
  /\ thread_pc[t] = "load"
  /\ thread_field[t] = field
  /\ thread_loaded' = [thread_loaded EXCEPT ![t] = cell_fields[field]]
  /\ thread_pc' = [thread_pc EXCEPT ![t] = "store"]
  /\ UNCHANGED <<cell_fields, thread_inputs, stored_values, non_cell_vars>>

\* The thread writes the value it read plus its amount.
StoreField(t, field) ==
  /\ thread_pc[t] = "store"
  /\ thread_field[t] = field
  /\ LET value == thread_loaded[t] + thread_delta[t]
     IN /\ cell_fields' =
             [cell_fields EXCEPT ![field] = Store(cell_fields[field], value)]
        /\ stored_values' =
             [stored_values EXCEPT ![field] = stored_values[field] \cup {value}]
  /\ thread_pc' = [thread_pc EXCEPT ![t] = "done"]
  /\ UNCHANGED <<thread_inputs, thread_loaded, non_cell_vars>>

\* CollisionCell::Occupancy()
Occupancy == \E t \in Threads : LoadField(t, "occupancy")

\* CollisionCell::Component()
Component == \E t \in Threads : LoadField(t, "component")

\* CollisionCell::SetOccupancy(occupancy)
SetOccupancy == \E t \in Threads : StoreField(t, "occupancy")

\* CollisionCell::SetComponent(component)
SetComponent == \E t \in Threads : StoreField(t, "component")

-----------------------------------------------------------------------------
(* Inputs of the generic labeller: small grids with an arbitrary relation   *)
(* on face-adjacent in-bounds pairs, and any ids left in the cells.        *)

SmallSizes ==
  {s \in (1..MaxCells) \X (1..MaxCells) \X (1..MaxCells) :
     s[1] * s[2] * s[3] <= MaxCells}

MapSizes ==
  {s \in (1..MapMaxCells) \X (1..MapMaxCells) \X (1..MapMaxCells) :
     s[1] * s[2] * s[3] <= MapMaxCells}

TopologySizes ==
  {s \in (1..TopologyMaxCells) \X (1..TopologyMaxCells) \X (1..TopologyMaxCells) :
     s[1] * s[2] * s[3] <= TopologyMaxCells}

Abs(n) == IF n < 0 THEN -n ELSE n

FaceAdjacent(a, b) ==
  Abs(a[1] - b[1]) + Abs(a[2] - b[2]) + Abs(a[3] - b[3]) = 1

AdjacentPairs(s) ==
  {p \in CellsOf(s) \X CellsOf(s) : FaceAdjacent(p[1], p[2])}

FactoryIdle ==
  /\ backend_option = "BEST_AVAILABLE"
  /\ backend_available = [backend \in Backends |-> FALSE]
  /\ factory_pc = "idle"
  /\ factory_path = "none"
  /\ construction_attempts = <<>>
  /\ voxelizer = "null"
  /\ factory_exception = "none"

CellIdle ==
  /\ cell_fields = [occupancy |-> 0, component |-> 0]
  /\ thread_field = <<>>
  /\ thread_delta = <<>>
  /\ thread_pc = <<>>
  /\ thread_loaded = <<>>
  /\ stored_values = [occupancy |-> {}, component |-> {}]

VoxelizerIdle ==
  /\ static_environment =
       [initialized |-> FALSE, components_valid |-> FALSE, total_cells |-> 0]
  /\ step_size_multiplier = Double(10)
  /\ pointclouds = 0
  /\ interface_available = FALSE
  /\ voxelizer_pc = "idle"
  /\ backend_calls = <<>>
  /\ device_allocated = {}
  /\ device_tracking_grid_offsets = <<>>
  /\ idx = 0
  /\ filtered_grid = <<>>
  /\ voxelizer_exception = "none"

TopologyIdle ==
  /\ topology_mask = {}
  /\ component_surfaces = <<>>
  /\ pending_components = <<>>
  /\ surface_vertices = {}
  /\ vertex_connectivity = <<>>
  /\ m_counts = <<0, 0, 0>>
  /\ surface_count = 0
  /\ processed_vertices = 0
  /\ vertex_components = {}
  /\ vertex_queue = <<>>
  /\ vertex_queued = {}
  /\ component_processed_vertices = 0
  /\ topology = <<>>
  /\ exception = "none"

LabellerIdle ==
  /\ previous_run = [done |-> FALSE, component |-> <<>>, returned |-> 0]
  /\ pc = "idle"
  /\ caller = "none"
  /\ prev_valid = FALSE
  /\ number_of_components = 0
  /\ components_valid = FALSE
  /\ forced_valid = FALSE
  /\ sweep_index = GridIndex(0, 0, 0)
  /\ marked_cells = 0
  /\ connected_components = 0
  /\ working_queue = <<>>
  /\ queued_hashtable = {}
  /\ returned = 0
  /\ last_op = "construct"

InitSmall ==
  /\ TopologyIdle
  /\ VoxelizerIdle
  /\ FactoryIdle
  /\ CellIdle
  /\ iteration_order = "ascending"
  /\ sizes \in SmallSizes
  /\ occupancy = [index \in Cells |-> 0]
  /\ component \in [Cells -> {0, MaxCells + 1}]
  /\ \E pairs \in SUBSET AdjacentPairs(sizes) :
       are_connected_fn = [kind |-> "relation", pairs |-> pairs]
  /\ LabellerIdle

\* The grids on which the labeller is run again on stale ids.
InitRerun ==
  /\ InitSmall
  /\ total_cells <= RerunMaxCells

NextRerun ==
  \/ ComputeConnectedComponents
  \/ Labeller
  \/ ComputeConnectedComponentsDone
  \/ StoreStaleComponent

SpecRerun == InitRerun /\ [][NextRerun]_vars

\* Scenario grids: 5 x 5 x 5 cells labelled with the occupancy predicate.
ScenarioSizes5 == <<5, 5, 5>>

\* S1: one filled 2 x 2 x 2 block.
S1Occupancy ==
  [index \in CellsOf(ScenarioSizes5) |->
     IF index[1] \in 1..2 /\ index[2] \in 1..2 /\ index[3] \in 1..2
     THEN 10 ELSE 0]

\* S2: two isolated filled cells.
S2Occupancy ==
  [index \in CellsOf(ScenarioSizes5) |->
     IF index = <<0, 0, 0>> \/ index = <<4, 4, 4>> THEN 10 ELSE 0]

InitScenario(s, occ) ==
  /\ TopologyIdle
  /\ VoxelizerIdle
  /\ FactoryIdle
  /\ CellIdle
  /\ iteration_order = "ascending"
  /\ sizes = s
  /\ occupancy = occ
  /\ component = [index \in CellsOf(s) |-> 0]
  /\ are_connected_fn = [kind |-> "occupancy", pairs |-> {}]
  /\ LabellerIdle

InitS1 == InitScenario(ScenarioSizes5, S1Occupancy)
InitS2 == InitScenario(ScenarioSizes5, S2Occupancy)

Init == InitSmall \/ InitS1 \/ InitS2

Next == ComputeConnectedComponents \/ Labeller \/ ComputeConnectedComponentsDone

Spec == Init /\ [][Next]_vars

\* The labeller runs on the caller's thread: a call that can take a step
\* takes it.
SpecLabellerRuns == Init /\ [][Next]_vars /\ WF_vars(Labeller)

\* A CollisionMap as constructed: cells of the default value, no components.
InitMap ==
  /\ TopologyIdle
  /\ VoxelizerIdle
  /\ FactoryIdle
  /\ CellIdle
  /\ iteration_order = "ascending"
  /\ sizes \in MapSizes
  /\ \E occ \in OccupancyValues : occupancy = [index \in Cells |-> occ]
  /\ component = [index \in Cells |-> 0]
  /\ are_connected_fn = [kind |-> "none", pairs |-> {}]
  /\ LabellerIdle

NextMap == CollisionMapOps \/ Labeller

SpecMap == InitMap /\ [][NextMap]_vars

\* The step size multipliers tried.
StepSizeMultipliers == {Double(-5), Double(0), Double(5), Double(10), Double(15), NaN}

InitVoxelizer ==
  /\ TopologyIdle
  /\ LabellerIdle
  /\ iteration_order = "ascending"
  /\ sizes = <<1, 1, 1>>
  /\ occupancy = [index \in Cells |-> 0]
  /\ component = [index \in Cells |-> 0]
  /\ are_connected_fn = [kind |-> "none", pairs |-> {}]
  /\ static_environment \in
       {[initialized |-> FALSE, components_valid |-> FALSE, total_cells |-> 0]}
       \cup [initialized : {TRUE}, components_valid : BOOLEAN,
             total_cells : {1, MaxCells}]
  /\ step_size_multiplier \in StepSizeMultipliers
  /\ pointclouds \in 0..MaxClouds
  /\ interface_available \in BOOLEAN
  /\ voxelizer_pc = "idle"
  /\ backend_calls = <<>>
  /\ device_allocated = {}
  /\ device_tracking_grid_offsets = <<>>
  /\ idx = 0
  /\ filtered_grid = <<>>
  /\ voxelizer_exception = "none"
  /\ FactoryIdle
  /\ CellIdle

NextVoxelizer ==
  \/ VoxelizePointClouds
  \/ PrepareTrackingGrids
  \/ RaycastPoints
  \/ PrepareFilterGrid
  \/ FilterTrackingGrids
  \/ RetrieveFilteredGrid
  \/ CleanupAllocatedMemory

SpecVoxelizer == InitVoxelizer /\ [][NextVoxelizer]_vars

InitFactory ==
  /\ TopologyIdle
  /\ LabellerIdle
  /\ VoxelizerIdle
  /\ CellIdle
  /\ iteration_order = "ascending"
  /\ sizes = <<1, 1, 1>>
  /\ occupancy = [index \in Cells |-> 0]
  /\ component = [index \in Cells |-> 0]
  /\ are_connected_fn = [kind |-> "none", pairs |-> {}]
  /\ backend_option \in BackendOptions
  /\ backend_available \in [Backends -> BOOLEAN]
  /\ factory_pc = "idle"
  /\ factory_path = "none"
  /\ construction_attempts = <<>>
  /\ voxelizer = "null"
  /\ factory_exception = "none"

NextFactory ==
  \/ MakePointCloudVoxelizer
  \/ MakeBestAvailablePointCloudVoxelizer
  \/ TryCuda
  \/ TryOpenCL
  \/ TryCpu

SpecFactory == InitFactory /\ [][NextFactory]_vars

InitCell ==
  /\ TopologyIdle
  /\ LabellerIdle
  /\ VoxelizerIdle
  /\ FactoryIdle
  /\ iteration_order = "ascending"
  /\ sizes = <<1, 1, 1>>
  /\ occupancy = [index \in Cells |-> 0]
  /\ component = [index \in Cells |-> 0]
  /\ are_connected_fn = [kind |-> "none", pairs |-> {}]
  /\ cell_fields = [occupancy |-> 0, component |-> 0]
  /\ thread_field \in [Threads -> CellFieldNames]
  /\ thread_delta \in [Threads -> {1, 2}]
  /\ thread_pc = [t \in Threads |-> "load"]
  /\ thread_loaded = [t \in Threads |-> 0]
  /\ stored_values = [occupancy |-> {}, component |-> {}]

NextCell ==
  \/ Occupancy
  \/ Component
  \/ SetOccupancy
  \/ SetComponent

SpecCell == InitCell /\ [][NextCell]_vars

\* Scenario grids of the topology engine.
SphereSizes == <<9, 9, 9>>
TorusSizes == <<13, 13, 5>>
BlockSizes == <<3, 3, 2>>

SquaredDistance(index, centre) ==
    (index[1] - centre[1]) * (index[1] - centre[1])
  + (index[2] - centre[2]) * (index[2] - centre[2])
  + (index[3] - centre[3]) * (index[3] - centre[3])

\* S3: the cells within distance 3 of (4,4,4) are filled.
SphereOccupancy ==
  [index \in CellsOf(SphereSizes) |->
     IF SquaredDistance(index, <<4, 4, 4>>) <= 9 THEN 10 ELSE 0]

\* S4: the same sphere with the cells within distance 1 of its centre
\* marked empty again.
HollowSphereOccupancy ==
  [index \in CellsOf(SphereSizes) |->
     IF /\ SquaredDistance(index, <<4, 4, 4>>) <= 9
        /\ SquaredDistance(index, <<4, 4, 4>>) > 1
     THEN 10 ELSE 0]

\* S5: the cells within distance 1 of the circle of radius 3 around
\* (6,6,2) in the plane z = 2:  (sqrt(r2) - 3)^2 + dz^2 <= 1, i.e.
\* (r2 + 8 + dz^2)^2 <= 36 * r2.
TorusOccupancy ==
  [index \in CellsOf(TorusSizes) |->
     LET r2 == SquaredDistance(<<index[1], index[2], 2>>, <<6, 6, 2>>)
         dz2 == (index[3] - 2) * (index[3] - 2)
     IN IF (r2 + 8 + dz2) * (r2 + 8 + dz2) <= 36 * r2 THEN 10 ELSE 0]

\* A solid block filling its grid.
BlockOccupancy == [index \in CellsOf(BlockSizes) |-> 10]

\* One layer in which two filled cells meet only along an edge, and so do
\* two cells of the empty component around them.
PinchedSizes == <<3, 3, 1>>
PinchedOccupancy ==
  [index \in CellsOf(PinchedSizes) |->
     IF index \in {<<0, 0, 0>>, <<1, 1, 0>>} THEN 10 ELSE 0]

\* A column of 2x2 layers with one filled cell in a top corner.
ColumnSizes == <<2, 2, 3>>
ColumnOccupancy ==
  [index \in CellsOf(ColumnSizes) |->
     IF index = <<0, 0, 2>> THEN 10 ELSE 0]

InitTopologyOrdered(s, occ, order) ==
  /\ TopologyIdle
  /\ VoxelizerIdle
  /\ FactoryIdle
  /\ CellIdle
  /\ iteration_order = order
  /\ sizes = s
  /\ occupancy = occ
  /\ component = [index \in CellsOf(s) |-> 0]
  /\ are_connected_fn = [kind |-> "none", pairs |-> {}]
  /\ LabellerIdle

InitTopologyScenario(s, occ) == InitTopologyOrdered(s, occ, "ascending")

\* Every filled/empty occupancy of the small grids, under every iteration
\* order of the vertex map.
InitTopologySmall ==
  /\ TopologyIdle
  /\ VoxelizerIdle
  /\ FactoryIdle
  /\ CellIdle
  /\ iteration_order = "any"
  /\ sizes \in TopologySizes
  /\ occupancy \in [Cells -> {0, 10}]
  /\ component = [index \in Cells |-> 0]
  /\ are_connected_fn = [kind |-> "none", pairs |-> {}]
  /\ LabellerIdle

InitTopology ==
  \/ InitTopologySmall
  \/ InitTopologyScenario(BlockSizes, BlockOccupancy)
  \/ InitTopologyScenario(SphereSizes, SphereOccupancy)
  \/ InitTopologyScenario(SphereSizes, HollowSphereOccupancy)
  \/ InitTopologyScenario(TorusSizes, TorusOccupancy)
  \/ InitTopologyOrdered(PinchedSizes, PinchedOccupancy, "any")
  \/ InitTopologyOrdered(ColumnSizes, ColumnOccupancy, "any")

NextTopology ==
  \/ UpdateConnectedComponents
  \/ UpdateConnectedComponentsReturn
  \/ Labeller
  \/ TopologyEngine

SpecTopology == InitTopology /\ [][NextTopology]_vars

-----------------------------------------------------------------------------
(* What the labeller is to compute, stated without the labeller's code.    *)

\* The cells one are_connected step away from a cell of S.
PathSuccessors(S) ==
  {b \in Cells : \E a \in S : FaceAdjacent(a, b) /\ AreConnected(a, b)}

RECURSIVE PathClosure(_, _)
PathClosure(frontier, seen) ==
  LET new == PathSuccessors(frontier) \ seen
  IN IF new = {} THEN seen ELSE PathClosure(new, seen \cup new)

\* The cells a face-connected are_connected path leads to from a.
ReachableFrom(a) == PathClosure({a}, {a})

\* are_connected gives the same answer in both directions.
SymmetricPredicate ==
  \A a, b \in Cells : FaceAdjacent(a, b) => (AreConnected(a, b) <=> AreConnected(b, a))

\* The classes of cells under are_connected paths.
PathClasses == {ReachableFrom(a) : a \in Cells}

LabelsFollowPaths ==
  \A a \in Cells :
    LET reach == ReachableFrom(a)
    IN \A b \in Cells : (component[a] = component[b]) <=> (b \in reach)

IsS1 == sizes = ScenarioSizes5 /\ occupancy = S1Occupancy
IsS2 == sizes = ScenarioSizes5 /\ occupancy = S2Occupancy

CountIsClasses ==
  /\ returned = Cardinality(PathClasses)
  /\ 1 <= returned /\ returned <= total_cells
  /\ (returned = 1) <=> (\A a, b \in Cells : b \in ReachableFrom(a))
  /\ IsS1 => returned = 2
  /\ IsS2 => returned = 3

-----------------------------------------------------------------------------
(* Claims.                                                                 *)

\* C1 (as stated): when ComputeConnectedComponents has returned, two cells
\* carry the same component id iff an are_connected path of face-adjacent
\* cells leads from the first to the second.
C1_Original == pc = "cc_return" => LabelsFollowPaths

\* C1 (amended): the same, for a predicate that answers alike in both
\* directions.
C1_LabelsFollowPaths ==
  (pc = "cc_return" /\ SymmetricPredicate) => LabelsFollowPaths

\* C1 witness: a returned labelling of a symmetric predicate with two
\* components, one of which joins two cells that are not adjacent.
C1_Witness ==
  /\ pc = "cc_return"
  /\ SymmetricPredicate
  /\ returned >= 2
  /\ \E a, b \in Cells :
       /\ a # b /\ ~FaceAdjacent(a, b)
       /\ component[a] = component[b]

\* C2: when ComputeConnectedComponents has returned K every cell's id is in
\* 1..K, and at no point of the sweep does a cell hold an id above the
\* number of components counted so far.
C2_IdsInRange ==
  /\ pc = "cc_return" =>
       \A index \in Cells : 1 <= component[index] /\ component[index] <= returned
  /\ pc \in {"cc_sweep", "mcc_loop", "cc_return"} =>
       \A index \in Cells : component[index] <= connected_components

\* C2 witness: a returned labelling with several components on a grid
\* whose cells held stale ids before the call.
C2_Witness ==
  /\ pc = "cc_return"
  /\ returned >= 3
  /\ \E index \in Cells : component[index] = 1
  /\ \E index \in Cells : component[index] = returned

\* C3 (as stated): the returned K is the number of classes of cells under
\* are_connected paths, so 1 <= K <= N, K = 1 iff all cells are one class,
\* and the scenarios S1 and S2 give 2 and 3.
C3_Original == pc = "cc_return" => CountIsClasses

\* C3 (amended): the same, for a predicate that answers alike in both
\* directions.
C3_CountIsClasses ==
  (pc = "cc_return" /\ SymmetricPredicate) => CountIsClasses

\* C3 witness: scenario S2 labelled, with its three components.
C3_Witness == pc = "cc_return" /\ IsS2 /\ returned = 3

\* C4: a mutable access (per index or raw) leaves components_valid false
\* whatever it was before; GetNumConnectedComponents holds a value iff
\* components_valid; and the flag turns from false to true only by
\* UpdateConnectedComponents or ForceComponentsToBeValid.
C4_MutationInvalidates ==
  /\ last_op \in {"MutableAccess", "MutableRawAccess"} =>
       /\ ~components_valid
       /\ ~GetNumConnectedComponents.has_value
  /\ GetNumConnectedComponents.has_value <=> components_valid
  /\ GetNumConnectedComponents.has_value =>
       GetNumConnectedComponents.value = number_of_components
  /\ (components_valid /\ ~prev_valid) =>
       last_op \in {"UpdateConnectedComponents", "ForceComponentsToBeValid"}

\* C4 witness: a mutable access has just invalidated components that were
\* valid, and the count is no longer available.
C4_Witness ==
  /\ last_op \in {"MutableAccess", "MutableRawAccess"}
  /\ prev_valid
  /\ ~GetNumConnectedComponents.has_value

\* The labelling the labeller would produce now, from the occupancy alone.
SameOccupancyClass(a, b) ==
  OccupancyClass(occupancy[a]) = OccupancyClass(occupancy[b])

RECURSIVE ClassClosure(_, _)
ClassClosure(frontier, seen) ==
  LET new == {b \in Cells : \E a \in frontier :
                FaceAdjacent(a, b) /\ SameOccupancyClass(a, b)} \ seen
  IN IF new = {} THEN seen ELSE ClassClosure(new, seen \cup new)

OccupancyComponent(a) == ClassClosure({a}, {a})

\* Position of a cell in the sweep (x outermost, z innermost).
SweepPosition(a) == (a[1] * sizes[2] + a[2]) * sizes[3] + a[3]

FirstSweepPosition(S) ==
  CHOOSE p \in {SweepPosition(a) : a \in S} :
    \A q \in {SweepPosition(a) : a \in S} : p <= q

\* The id of a cell's component: components are numbered from 1 in the
\* order the sweep meets their first cell.
FreshLabel(a) ==
  LET first == FirstSweepPosition(OccupancyComponent(a))
  IN 1 + Cardinality({FirstSweepPosition(OccupancyComponent(b)) : b \in
                        {c \in Cells : SweepPosition(c) < first}})

LabelsAreFresh ==
  /\ number_of_components = Cardinality({OccupancyComponent(a) : a \in Cells})
  /\ \A a \in Cells :
       /\ 1 <= component[a] /\ component[a] <= number_of_components
       /\ component[a] = FreshLabel(a)

\* C5 (as stated): whenever components_valid is true, every cell's id is in
\* 1..K and is the id the labeller would assign now.
C5_Original == components_valid => LabelsAreFresh

\* C5 (amended): whenever components_valid is true and was not set by
\* ForceComponentsToBeValid, every cell's id is in 1..K and is the id the
\* labeller would assign now.
C5_ValidMeansFresh == (components_valid /\ ~forced_valid) => LabelsAreFresh

\* C5 witness: valid components of a map with several components, kept
\* through a copy.
C5_Witness ==
  /\ components_valid /\ ~forced_valid
  /\ number_of_components >= 2
  /\ last_op = "CopyConstruct"


-----------------------------------------------------------------------------
(* The topology of component surfaces.                                     *)

\* A call of ComputeComponentTopology on valid components has ended,
\* by returning or by throwing.
TopologyEnded ==
  /\ pc \in {"topology_return", "threw"}
  /\ components_valid

\* The call has thrown out of ComputeHolesAndVoidsInSurface.
SurfaceComputationThrew ==
  /\ pc = "threw"
  /\ exception \in {"out_of_range", "invalid_argument"}

\* C6: for every labelled grid and every component with a surface cell,
\* ComputeHolesAndVoidsInSurface completes and returns num_holes >= 0 and
\* num_voids >= 0, and never hands the NumberOfHolesAndVoids constructor a
\* negative count: no state has the computation thrown, and every recorded
\* result is non-negative.
C6_CountsNonNegative ==
  /\ ~SurfaceComputationThrew
  /\ \A id \in DOMAIN topology :
       topology[id].num_holes >= 0 /\ topology[id].num_voids >= 0

IsSphere == sizes = SphereSizes /\ occupancy = SphereOccupancy
IsHollowSphere == sizes = SphereSizes /\ occupancy = HollowSphereOccupancy
IsTorus == sizes = TorusSizes /\ occupancy = TorusOccupancy

\* The call returned exactly this result for the component of the cell.
TopologyOf(index, holes_and_voids) ==
  /\ pc = "topology_return"
  /\ exception = "none"
  /\ component[index] \in DOMAIN topology
  /\ topology[component[index]] = holes_and_voids

\* C7: scenario S3, the solid sphere of radius 3 in a 9x9x9 grid: the
\* topology computation of the filled component yields num_holes = 0 and
\* num_voids = 0.
C7_SphereTopology ==
  (IsSphere /\ TopologyEnded /\ topology_mask = {"filled"}) =>
    TopologyOf(<<4, 4, 4>>, [num_holes |-> 0, num_voids |-> 0])

\* C8: scenario S4, the hollow sphere: the topology computation yields
\* num_voids = 1 for the filled shell and num_voids = 0 for the enclosed
\* empty component.
C8_HollowSphereTopology ==
  /\ (IsHollowSphere /\ TopologyEnded /\ topology_mask = {"filled"}) =>
       /\ pc = "topology_return"
       /\ exception = "none"
       /\ component[<<4, 4, 1>>] \in DOMAIN topology
       /\ topology[component[<<4, 4, 1>>]].num_voids = 1
  /\ (IsHollowSphere /\ TopologyEnded /\ topology_mask = {"empty"}) =>
       /\ pc = "topology_return"
       /\ exception = "none"
       /\ component[<<4, 4, 4>>] \in DOMAIN topology
       /\ topology[component[<<4, 4, 4>>]].num_voids = 0

\* C9: scenario S5, the torus of major radius 3 and minor radius 1 in a
\* 13x13x5 grid: the topology computation of the filled component yields
\* num_holes = 1 and num_voids = 0.
C9_TorusTopology ==
  (IsTorus /\ TopologyEnded /\ topology_mask = {"filled"}) =>
    /\ DOMAIN topology = {component[<<9, 6, 2>>]}
    /\ TopologyOf(<<9, 6, 2>>, [num_holes |-> 1, num_voids |-> 0])

\* The torus has been labelled and the topology of its filled component
\* computed: 48 filled cells in one component, and its surface vertices
\* counted.
C9_Witness ==
  /\ IsTorus
  /\ TopologyEnded
  /\ topology_mask = {"filled"}
  /\ occupancy[<<9, 6, 2>>] = 10
  /\ Cardinality({index \in Cells : component[index] = component[<<9, 6, 2>>]}) = 48
  /\ m_counts = <<64, 32, 16>>
  /\ surface_count = 1

-----------------------------------------------------------------------------
(* VoxelizePointClouds and the device memory.                              *)

BackendCallNames == {backend_calls[i][1] : i \in 1..Len(backend_calls)}

\* C10: if a backend call fails after the tracking grids have been
\* requested (wrong number of offsets, PrepareFilterGrid false, or a call
\* raising), CleanupAllocatedMemory has been called, and no device buffer
\* is left allocated, when the error reaches the caller.
C10_CleanupBeforeError ==
  (voxelizer_pc = "threw" /\ "PrepareTrackingGrids" \in BackendCallNames) =>
    /\ "CleanupAllocatedMemory" \in BackendCallNames
    /\ device_allocated = {}

-----------------------------------------------------------------------------
(* The voxelizer factory.                                                  *)

IsPrefix(a, b) ==
  /\ Len(a) <= Len(b)
  /\ \A i \in 1..Len(a) : a[i] = b[i]

\* C11: MakeBestAvailablePointCloudVoxelizer runs the constructors in the
\* order CUDA, OpenCL, CPU; every constructor run before the last one run
\* failed, so a later backend is tried only after the failure of the
\* previous one and never after a success; the voxelizer returned is the
\* one constructed last, the first whose construction succeeded.
C11_AttemptOrder ==
  factory_path = "best_available" =>
    /\ IsPrefix(construction_attempts, <<"CUDA", "OPENCL", "CPU">>)
    /\ \A i \in 1..(Len(construction_attempts) - 1) :
         ~backend_available[construction_attempts[i]]
    /\ voxelizer # "null" =>
         /\ factory_pc = "returned"
         /\ voxelizer = construction_attempts[Len(construction_attempts)]
         /\ backend_available[voxelizer]
    /\ factory_pc = "returned" => voxelizer # "null"

\* CUDA and OpenCL failed and the CPU voxelizer was returned.
C11_Witness ==
  /\ factory_path = "best_available"
  /\ factory_pc = "returned"
  /\ construction_attempts = <<"CUDA", "OPENCL", "CPU">>
  /\ voxelizer = "CPU"

FactoryEnded == factory_pc \in {"returned", "threw"}

\* C12: when the three constructions all fail,
\* MakeBestAvailablePointCloudVoxelizer returns no voxelizer and throws
\* "No PointCloud Voxelizers available"; in every other case it returns a
\* voxelizer.
C12_NoBackendAvailable ==
  (factory_path = "best_available" /\ FactoryEnded) =>
    IF \A backend \in Backends : ~backend_available[backend]
    THEN /\ factory_pc = "threw"
         /\ factory_exception =
              "runtime_error: No PointCloud Voxelizers available"
         /\ voxelizer = "null"
    ELSE /\ factory_pc = "returned"
         /\ voxelizer \in Backends
         /\ factory_exception = "none"

\* The three constructors were run and failed, and the error was thrown.
C12_Witness ==
  /\ factory_path = "best_available"
  /\ factory_pc = "threw"
  /\ construction_attempts = <<"CUDA", "OPENCL", "CPU">>
  /\ factory_exception = "runtime_error: No PointCloud Voxelizers available"

-----------------------------------------------------------------------------
(* Validation of the arguments of VoxelizePointClouds.                     *)

\* The multiplier is a number m with 0 < m <= 1.
StepSizeInRange ==
  /\ ~step_size_multiplier.nan
  /\ step_size_multiplier.tenths > 0
  /\ step_size_multiplier.tenths <= 10

RejectedBeforeBackend(error) ==
  /\ voxelizer_pc = "threw"
  /\ voxelizer_exception = error
  /\ backend_calls = <<>>
  /\ device_allocated = {}

\* C13: once VoxelizePointClouds has started, an uninitialized
\* static_environment has been rejected, and so has every
\* step_size_multiplier outside (0, 1], before any call on the backend
\* interface (no tracking grid allocated, no ray cast); a multiplier in
\* (0, 1] on an initialized grid is not rejected.
C13_ValidationFirst ==
  voxelizer_pc # "idle" =>
    /\ ~static_environment.initialized =>
         RejectedBeforeBackend("invalid_argument: !IsInitialized")
    /\ (static_environment.initialized /\ ~StepSizeInRange) =>
         RejectedBeforeBackend("invalid_argument: step_size_multiplier")
    /\ (static_environment.initialized /\ StepSizeInRange) =>
         voxelizer_exception \notin
           {"invalid_argument: !IsInitialized",
            "invalid_argument: step_size_multiplier"}

\* C14: the CollisionMap VoxelizePointClouds returns has components_valid
\* false, also when the static_environment it was given had
\* components_valid true.
C14_OutputInvalid ==
  voxelizer_pc = "returned" => ~filtered_grid.components_valid

\* A call on an environment with valid components has returned.
C14_Witness ==
  /\ voxelizer_pc = "returned"
  /\ static_environment.components_valid
  /\ pointclouds > 0
  /\ ~filtered_grid.components_valid

-----------------------------------------------------------------------------
(* Relabelling.                                                            *)

\* A generic call has returned and an earlier one had returned before it,
\* on the same cells and predicate.
SecondRunReturned ==
  /\ pc = "cc_return"
  /\ caller = "generic"
  /\ previous_run.done

\* C15: a labeller run that follows another one on unchanged cells returns
\* the same K and leaves every cell with the same id, whatever ids the
\* cells held when it started.
C15_RerunSameLabels ==
  SecondRunReturned =>
    /\ returned = previous_run.returned
    /\ component = previous_run.component

\* A second run has returned on a grid of several components.
C15_Witness ==
  /\ SecondRunReturned
  /\ last_op = "ComputeConnectedComponents"
  /\ returned >= 2
  /\ returned < total_cells
  /\ component = previous_run.component

-----------------------------------------------------------------------------
(* The sweep: counting and order.                                          *)

MarkedCells == {index \in Cells : component[index] # 0}

\* C17: MarkConnectedComponent returns the number of cells it marked, the
\* sweep accumulates these counts (marked_cells is the number of cells
\* holding an id whenever control is in the sweep), and the sweep returns
\* as soon as the count reaches nx*ny*nz: it never looks at a further cell
\* once every cell is marked.
C17_CountAndShortCircuit ==
  /\ pc \in {"cc_sweep", "cc_return"} =>
       marked_cells = Cardinality(MarkedCells)
  /\ pc = "cc_sweep" => MarkedCells # Cells

\* The linear index of a cell in the backing sequence.
LinearIndex(index) == index[1] + sizes[1] * (index[2] + sizes[2] * index[3])

\* The position of a cell in the sweep loops: x outermost, z innermost.
SweepOrder(index) == index[3] + sizes[3] * (index[2] + sizes[2] * index[1])

ComponentCells(id) == {index \in Cells : component[index] = id}

LeastOf(S) == CHOOSE p \in S : \A q \in S : p <= q

\* Ids start at 1 and follow the order in which Position meets the first
\* cell of each component.
IdsFollow(Position(_)) ==
  /\ component[<<0, 0, 0>>] = 1
  /\ \A a, b \in 1..returned :
       (/\ ComponentCells(a) # {}
        /\ ComponentCells(b) # {}
        /\ LeastOf({Position(index) : index \in ComponentCells(a)})
             < LeastOf({Position(index) : index \in ComponentCells(b)}))
         => a < b

\* C18 (as stated): ids start at 1 and increase with the smallest linear
\* index ix + nx*(iy + ny*iz) of the cells of each component.
C18_Original == pc = "cc_return" => IdsFollow(LinearIndex)

\* C18 (amended): ids start at 1 and increase with the smallest sweep
\* position iz + nz*(iy + ny*ix) of the cells of each component: the sweep
\* loops run x outermost and z innermost.
C18_IdsInSweepOrder == pc = "cc_return" => IdsFollow(SweepOrder)

\* A labelling with several components on a grid where the two orders
\* differ: the cell (0,0,1) got its id before the cell (1,0,0).
C18_Witness ==
  /\ pc = "cc_return"
  /\ sizes[1] > 1
  /\ sizes[3] > 1
  /\ returned >= 3
  /\ component[<<0, 0, 1>>] < component[<<1, 0, 0>>]

-----------------------------------------------------------------------------
(* Concurrent updates of a CollisionCell.                                  *)

AllThreadsDone == \A t \in Threads : thread_pc[t] = "done"

UpdatersOf(field) == {t \in Threads : thread_field[t] = field}

RECURSIVE SumOfDeltas(_)
SumOfDeltas(S) ==
  IF S = {} THEN 0
  ELSE LET t == CHOOSE u \in S : TRUE
       IN thread_delta[t] + SumOfDeltas(S \ {t})

\* C16 (as stated): every update is one atomic fetch-and-add, so when all
\* threads are done no update is lost: each field holds the sum of all the
\* amounts added to it.
C16_Original ==
  AllThreadsDone =>
    \A field \in CellFieldNames :
      cell_fields[field] = SumOfDeltas(UpdatersOf(field))

\* C16 (amended): every access is one atomic load or one atomic store.  A
\* load returns the initial value or a value some thread stored, a field
\* holds the initial value or the value of a store, and when all threads
\* are done a field that was updated holds the amounts of some of its
\* updaters, the last one to store among them, not necessarily of all.
C16_AtomicLoadStore ==
  /\ \A t \in Threads :
       thread_loaded[t] \in {0} \cup stored_values[thread_field[t]]
  /\ \A field \in CellFieldNames :
       cell_fields[field] \in
         IF stored_values[field] = {} THEN {0} ELSE stored_values[field]
  /\ AllThreadsDone =>
       \A field \in CellFieldNames :
         UpdatersOf(field) # {} =>
           \E S \in SUBSET UpdatersOf(field) :
             S # {} /\ cell_fields[field] = SumOfDeltas(S)

\* Two threads have updated the same field, one of them reading the value
\* the other had stored.
C16_Witness ==
  /\ AllThreadsDone
  /\ \E t, u \in Threads :
       /\ t # u
       /\ thread_field[t] = thread_field[u]
       /\ thread_loaded[u] = thread_delta[t]
       /\ cell_fields[thread_field[u]] = thread_delta[t] + thread_delta[u]

-----------------------------------------------------------------------------
(* Surface vertices and their edges.                                       *)

\* The face neighbour of a voxel on the side of a corner along one axis:
\* the -1 neighbour for offset 0, the +1 neighbour for offset 1.
SideNeighbour(index, axis, offset) ==
  [index EXCEPT ![axis] = IF offset = 0 THEN index[axis] - 1
                          ELSE index[axis] + 1]

Corner(index, d) ==
  <<index[1] + d[1], index[2] + d[2], index[3] + d[3]>>

CornerIsSurfaceVertex(comp_id, index, d) ==
  \E axis \in 1..3 :
    get_component_fn(component, SideNeighbour(index, axis, d[axis])) # comp_id

\* C19: the surface vertices just extracted are those the surface voxels
\* insert, and a surface voxel of component c inserts its corner
\* (dx, dy, dz) if and only if one of its three face neighbours on the
\* sides of that corner (x-1 or x+1, y-1 or y+1, z-1 or z+1) is not of
\* component c; the corners with dz = 1 are decided by the +z neighbour.
C19_CornerRule ==
  pc = "count_edges" =>
    LET comp_id == Head(pending_components)
        surface == component_surfaces[comp_id]
    IN /\ surface_vertices =
            UNION {VoxelSurfaceVertices(comp_id, index) : index \in surface}
       /\ \A index \in surface :
            \A d \in {0, 1} \X {0, 1} \X {0, 1} :
              Corner(index, d) \in VoxelSurfaceVertices(comp_id, index)
                <=> CornerIsSurfaceVertex(comp_id, index, d)

\* The direction of the edge each bit of the connectivity mask stands for.
BitDirection(bit) ==
  CASE bit = 0 -> <<0, 0, -1>>
    [] bit = 1 -> <<0, 0, 1>>
    [] bit = 2 -> <<0, -1, 0>>
    [] bit = 3 -> <<0, 1, 0>>
    [] bit = 4 -> <<-1, 0, 0>>
    [] bit = 5 -> <<1, 0, 0>>

\* The voxel has the vertex among its eight corners.
HasCorner(voxel, vertex) ==
  \A axis \in 1..3 : vertex[axis] - voxel[axis] \in {0, 1}

\* The voxels, in or out of the grid, around the edge between two
\* neighbouring vertices.
VoxelsAroundEdge(v, w) ==
  {voxel \in ((v[1] - 1)..v[1]) \X ((v[2] - 1)..v[2]) \X ((v[3] - 1)..v[3]) :
     HasCorner(voxel, v) /\ HasCorner(voxel, w)}

EdgeStraddlesSurface(comp_id, v, bit) ==
  LET around == VoxelsAroundEdge(v, Corner(v, BitDirection(bit)))
      inside == {voxel \in around :
                   get_component_fn(component, voxel) = comp_id}
  IN /\ Cardinality(around) = 4
     /\ inside # {}
     /\ inside # around

\* The connectivity masks of the surface being processed are in place.
ConnectivityComputed ==
  pc \in {"surface_iterate", "holes_and_voids"}

-----------------------------------------------------------------------------
(* The counts returned for one surface.                                    *)

IsPinched == sizes = PinchedSizes /\ occupancy = PinchedOccupancy
IsColumn == sizes = ColumnSizes /\ occupancy = ColumnOccupancy

\* Two surface vertices are joined when an exposed edge of one leads to
\* the other.
Joined(v, w) ==
  \E bit \in 0..5 :
    \/ bit \in vertex_connectivity[v] /\ w = Corner(v, BitDirection(bit))
    \/ bit \in vertex_connectivity[w] /\ v = Corner(w, BitDirection(bit))

JoinedTo(v) ==
  {w \in {Corner(v, BitDirection(bit)) : bit \in 0..5}
         \cap DOMAIN vertex_connectivity : Joined(v, w)}

\* The surface vertices connected to those of the frontier.
RECURSIVE GraphReach(_, _)
GraphReach(frontier, seen) ==
  LET next == UNION {JoinedTo(v) : v \in frontier} \ seen
  IN IF next = {} THEN seen ELSE GraphReach(next, seen \cup next)

\* G: the number of connected components of the graph whose nodes are the
\* given surface vertices and whose edges are the exposed edges.
RECURSIVE GraphComponents(_)
GraphComponents(nodes) ==
  IF nodes = {} THEN 0
  ELSE LET v == CHOOSE v \in nodes : TRUE
       IN 1 + GraphComponents(nodes \ GraphReach({v}, {v}))

\* The quotient of n by d > 0 rounded towards zero.
QuotientTowardsZero(n, d) ==
  CHOOSE q \in (-Abs(n))..Abs(n) :
    Abs(q * d) <= Abs(n) /\ Abs(n - (q * d)) < d

\* M5 + 2*M6 - M3 over the vertices of the surface being processed.
Numerator ==
  LET M(k) == Cardinality({v \in DOMAIN vertex_connectivity :
                             Cardinality(vertex_connectivity[v]) = k})
  IN M(5) + (2 * M(6)) - M(3)

\* ComputeHolesAndVoidsInSurface returns the counts of a surface.
SurfaceReturns ==
  pc = "holes_and_voids" /\ pc' = "topology_loop"

-----------------------------------------------------------------------------
(* The numerator of the hole count.                                        *)

\* M3, M5 and M6 of the surface at the head have just been counted.
NumeratorComputed ==
  pc = "surface_iterate" /\ vertex_components = {}

\* M5 + 2*M6 - M3 as counted.
CountedNumerator ==
  m_counts[2] + (2 * m_counts[3]) - m_counts[1]

\* C22 as stated: for the surface of every component produced by
\* labelling a grid, M5 + 2*M6 - M3 is a multiple of 8.
C22_Original ==
  NumeratorComputed => CountedNumerator % 8 = 0

\* The voxels, in or out of the grid, of the block spanned by two voxels.
BlockBetween(a, b) ==
  {voxel \in {a[1], b[1]} \X {a[2], b[2]} \X {a[3], b[3]} :
     voxel # a /\ voxel # b}

\* Two voxels on the same side of the surface of the component (both in
\* it or both out of it) touch only along an edge or only at a corner: the
\* other voxels of the 2x2x1 or 2x2x2 block they span are all on the other
\* side.
TouchOnlyAtEdgeOrCorner(comp_id, a, b) ==
  /\ \A axis \in 1..3 : Abs(a[axis] - b[axis]) <= 1
  /\ Cardinality({axis \in 1..3 : a[axis] # b[axis]}) >= 2
  /\ (get_component_fn(component, a) = comp_id)
       <=> (get_component_fn(component, b) = comp_id)
  /\ \A voxel \in BlockBetween(a, b) :
       (get_component_fn(component, voxel) = comp_id)
         <=> (get_component_fn(component, a) # comp_id)

\* No two voxels touch only along an edge or at a corner, the voxels just
\* out of the grid included.
NoEdgeOrCornerContact(comp_id) ==
  \A a \in ((-1)..sizes[1]) \X ((-1)..sizes[2]) \X ((-1)..sizes[3]) :
    \A d \in {0, 1} \X {-1, 0, 1} \X {-1, 0, 1} :
      ~TouchOnlyAtEdgeOrCorner(comp_id, a, Corner(a, d))

\* C22, amended: for the surface of every component in which no two
\* voxels of the component, and no two voxels outside it (out-of-bounds
\* voxels counted as outside), touch only along an edge or only at a
\* corner, the numerator M5 + 2*M6 - M3 is a multiple of 8.
C22_MultipleOfEight ==
  (NumeratorComputed /\ NoEdgeOrCornerContact(Head(pending_components)))
    => CountedNumerator % 8 = 0

\* A non-zero numerator was counted for a surface without edge or corner
\* contacts, with vertices of 3 and of 5 edges.
C22_Witness ==
  /\ NumeratorComputed
  /\ NoEdgeOrCornerContact(Head(pending_components))
  /\ m_counts[1] > 0
  /\ m_counts[2] > 0
  /\ CountedNumerator # 0

-----------------------------------------------------------------------------
(* The order of the backend calls.                                         *)

\* The calls of a successful voxelization of n point clouds of a grid of
\* so many cells, the tracking grids at the given offsets.
CallsOfSuccess(n, total, offsets) ==
  <<<<"PrepareTrackingGrids", n>>>>
    \o [i \in 1..n |-> <<"RaycastPoints", offsets[i]>>]
    \o <<<<"PrepareFilterGrid", total>>,
         <<"FilterTrackingGrids", n>>,
         <<"RetrieveFilteredGrid", total>>,
         <<"CleanupAllocatedMemory", 0>>>>

\* C23: when VoxelizePointClouds returns its result for n point clouds,
\* the backend calls made are, in this order: PrepareTrackingGrids once;
\* RaycastPoints n times, the i-th call for the i-th point cloud and given
\* the i-th tracking-grid offset only; PrepareFilterGrid;
\* FilterTrackingGrids; RetrieveFilteredGrid; and CleanupAllocatedMemory
\* once, as the last call.
C23_CallOrder ==
  voxelizer_pc = "returned" =>
    /\ Len(device_tracking_grid_offsets) = pointclouds
    /\ backend_calls =
         CallsOfSuccess(pointclouds, static_environment.total_cells,
                        device_tracking_grid_offsets)

\* A call with several point clouds has returned, the clouds raycast into
\* different tracking grids.
C23_Witness ==
  /\ voxelizer_pc = "returned"
  /\ pointclouds = MaxClouds
  /\ Len(backend_calls) = pointclouds + 5
  /\ backend_calls[2] # backend_calls[3]

-----------------------------------------------------------------------------
(* The vertices the search of the surface reaches.                         *)

\* The search over the vertex map of a surface is under way or done.
SearchingSurface ==
  pc \in {"surface_iterate", "surface_loop", "holes_and_voids"}

\* C24: every vertex reached by following a set edge bit from a collected
\* surface vertex is itself a collected surface vertex; so the search
\* never takes from its queue a vertex that is not in the connectivity
\* map, its lookup never fails with out_of_range, and it never processes
\* more vertices than the map holds.
C24_EdgesStayInMap ==
  /\ SearchingSurface =>
       /\ \A v \in DOMAIN vertex_connectivity :
            \A bit \in vertex_connectivity[v] :
              Corner(v, BitDirection(bit)) \in DOMAIN vertex_connectivity
       /\ \A i \in 1..Len(vertex_queue) :
            vertex_queue[i] \in DOMAIN vertex_connectivity
       /\ processed_vertices
            + (IF pc = "surface_loop" THEN component_processed_vertices ELSE 0)
            <= Cardinality(DOMAIN vertex_connectivity)
  /\ exception # "out_of_range"

-----------------------------------------------------------------------------
(* Termination of the labeller and the marks it makes.                     *)

\* are_connected is false for every pair with an index out of bounds.
NotConnectedOutOfBounds ==
  are_connected_fn.kind = "relation" =>
    \A pair \in are_connected_fn.pairs :
      IndexInBounds(pair[1]) /\ IndexInBounds(pair[2])

\* The call is past its reset pass.
Marking == pc \in {"cc_sweep", "mcc_loop"}

\* The indices waiting for mark_component_fn are cells of the grid, each
\* waiting once and not marked yet.
QueuedForOneMark ==
  pc = "mcc_loop" =>
    /\ \A i \in 1..Len(working_queue) :
         /\ working_queue[i] \in Cells
         /\ component[working_queue[i]] = 0
    /\ \A i, j \in 1..Len(working_queue) :
         working_queue[i] = working_queue[j] => i = j

\* A non-zero id is not written over.
MarksKept ==
  (Marking /\ Marking') =>
    \A index \in Cells :
      component[index] # 0 => component'[index] = component[index]

\* C25: with are_connected false for every pair with an out-of-bounds
\* index, a call of ComputeConnectedComponents that has started returns;
\* after the reset pass mark_component_fn is called with a non-zero id
\* only for cells of the grid that hold 0, a non-zero id once written is
\* kept until the return, and at the return every cell holds one: each
\* cell is marked exactly once.
C25_TerminatesMarkingOnce ==
  /\ [](NotConnectedOutOfBounds => QueuedForOneMark)
  /\ [][NotConnectedOutOfBounds => MarksKept]_vars
  /\ [](pc = "cc_return" => \A index \in Cells : component[index] # 0)
  /\ (pc = "cc_reset") ~> (pc = "cc_return")

\* A call on a grid that held stale ids has returned, several cells
\* marked with the same id and several ids given.
C25_Witness ==
  /\ pc = "cc_return"
  /\ total_cells = MaxCells
  /\ returned > 1
  /\ returned < total_cells
  /\ \A index \in Cells : component[index] \in 1..returned

-----------------------------------------------------------------------------
(* The voxelizer factory called with a backend.                            *)

\* C26: MakePointCloudVoxelizer called with CPU, OPENCL or CUDA runs the
\* constructor of that backend and of no other: it returns that voxelizer,
\* or the failure of its construction reaches the caller and no voxelizer
\* is returned; an option outside the enumeration fails with
\* invalid_argument and no constructor is run; several constructors are
\* run only on the BEST_AVAILABLE path.
C26_ExplicitBackendOnly ==
  /\ factory_path = "explicit" =>
       /\ backend_option # "BEST_AVAILABLE"
       /\ FactoryEnded
       /\ IF backend_option \in Backends
          THEN /\ construction_attempts = <<backend_option>>
               /\ IF backend_available[backend_option]
                  THEN /\ factory_pc = "returned"
                       /\ voxelizer = backend_option
                       /\ factory_exception = "none"
                  ELSE /\ factory_pc = "threw"
                       /\ voxelizer = "null"
                       /\ factory_exception = "runtime_error: not available"
          ELSE /\ construction_attempts = <<>>
               /\ factory_pc = "threw"
               /\ voxelizer = "null"
               /\ factory_exception = "invalid_argument: Invalid BackendOptions"
  /\ Len(construction_attempts) > 1 => factory_path = "best_available"

\* The OpenCL voxelizer was asked for and could not be constructed while
\* the CPU one could: the failure reached the caller.
C26_Witness ==
  /\ factory_path = "explicit"
  /\ backend_option = "OPENCL"
  /\ ~backend_available["OPENCL"]
  /\ backend_available["CPU"]
  /\ factory_pc = "threw"
  /\ voxelizer = "null"

=============================================================================
